---- MODULE Spec2Model ----
(***************************************************************************)
(* Model of vix::utils::Logger (Logger.hpp / Logger.cpp), the console      *)
(* coordinator (ConsoleMutex.hpp) and RuntimeBanner::emit_server_ready     *)
(* (ServerPrettyLogs.hpp).                                                 *)
(*                                                                         *)
(* Application threads call log / logModule / logf and the configuration   *)
(* operations; one banner thread runs emit_server_ready; one spdlog pool   *)
(* worker drains the asynchronous queue.  spdlog is an external library:   *)
(* its logger (level, flush level, should_log, the level re-check inside   *)
(* logger::log), its sinks (pattern applied when the sink writes) and its  *)
(* thread pool (one bounded queue, overrun_oldest) are modelled by what    *)
(* the calls made by this repository do.                                   *)
(***************************************************************************)
EXTENDS Integers, Sequences, FiniteSets, TLC

\* ------------------------------------------------------------------ bounds
\* total number of API calls made by the application threads
MaxOps == 4
\* capacity of the thread-pool queue (init_thread_pool(262144, 1)), scaled
QueueBound == 2
\* number of times emit_server_ready runs
MaxBanners == 1
\* number of API calls in the runs checked for progress
LiveOps == 2
\* number of API calls in the runs that also use throwError, level and enabled
ApiOps == 2
\* Logger calls in a run of the context store and the structured calls
CtxOps == 2
\* longest string passed to appendJsonEscaped
MaxLen == 2
\* setFormatFromEnv calls in a run of the string functions
PureOps == 2
\* places for ScopeGuard objects, and callables to guard
MaxGuards == 3
MaxCallbacks == 3

Threads == {"t1", "t2"}
\* owner values of a mutex that no application thread holds
BannerThread == "banner"
Free == "free"

\* ------------------------------------------------------------- Logger types
\* enum class Level
Level == {"TRACE", "DEBUG", "INFO", "WARN", "ERROR", "CRITICAL", "OFF"}
\* enum class Format
Format == {"KV", "JSON", "JSON_PRETTY"}

\* position of a Level in the enum (TRACE lowest, OFF last)
LevelOrd(l) ==
  CASE l = "TRACE" -> 0
    [] l = "DEBUG" -> 1
    [] l = "INFO" -> 2
    [] l = "WARN" -> 3
    [] l = "ERROR" -> 4
    [] l = "CRITICAL" -> 5
    [] l = "OFF" -> 6

\* spdlog::level::level_enum
spd_trace == 0
spd_debug == 1
spd_info == 2
spd_warn == 3
spd_err == 4
spd_critical == 5
spd_off == 6

\* Logger::toSpdLevel
toSpdLevel(level) ==
  CASE level = "TRACE" -> spd_trace
    [] level = "DEBUG" -> spd_debug
    [] level = "INFO" -> spd_info
    [] level = "WARN" -> spd_warn
    [] level = "ERROR" -> spd_err
    [] level = "CRITICAL" -> spd_critical
    [] level = "OFF" -> spd_off
    [] OTHER -> spd_info

\* the sink patterns the code installs, and one caller-chosen pattern
DefaultPattern == "%T [vix] [%l] %v"
RawPattern == "%v"
CustomPattern == "%T %v"

\* the level at construction: VIX_LOG_LEVEL unset, the default
EnvLevels == {"INFO"}
\* levels passed to log calls
CallLevels == {"DEBUG", "CRITICAL", "OFF"}
\* levels passed to setLevel
SetLevels == {"DEBUG", "OFF"}
\* formats passed to setFormat
SetFormats == {"KV", "JSON_PRETTY"}
\* patterns passed to setPattern
SetPatterns == {CustomPattern}
\* levels passed to enabled
QueryLevels == {"DEBUG", "CRITICAL", "OFF"}

VARIABLES
  consoleSync,     \* console_sync_enabled(): VIX_CONSOLE_SYNC
  loggers,         \* the spdlog::logger objects created so far
  spd_,            \* Logger::spd_ : index into loggers, 0 = nullptr
  mutex_,          \* Logger::mutex_ owner
  format_,         \* Logger::format_
  pattern,         \* pattern of the (shared) console sink
  console_mutex,   \* console_mutex() owner
  banner_done,     \* console_banner_done()
  thread_pool,     \* spdlog::thread_pool() != nullptr
  queue,           \* the thread pool's message queue
  overrun_counter, \* spdlog queue overrun counter (entries overwritten)
  sink,            \* records physically written to the console sink
  pc,              \* position of every application thread
  call,            \* arguments and locals of every thread's current call
  seq,             \* number of log calls issued by every thread
  cfg,             \* level most recently configured (env, then setLevel)
  bpc,             \* position of the banner thread in emit_server_ready
  banners,         \* emit_server_ready runs started
  ops,             \* API calls made so far
  ret,             \* what every thread's last value-returning call gave back
  tls_ctx_,        \* Logger::tls_ctx_ : the thread_local Context of every thread
  given,           \* what every thread last passed to setContext, <<>> once cleared
  got,             \* what every thread's last getContext returned
  line,            \* the text the last logf built, with its arguments and locals
  arg,             \* the argument of the string function under study
  res,             \* what the function returned for arg, <<>> before the call
  guards,          \* the ScopeGuard objects: alive, data_, active_
  heap,            \* every callable's heap copy: "unmade", "live" or "deleted"
  invoked          \* how often every stored callable has run

\* the Logger singleton, the console coordinator and the delivery pipeline
loggerVars == <<consoleSync, loggers, spd_, mutex_, format_, pattern, console_mutex,
                banner_done, thread_pool, queue, overrun_counter, sink, pc, call,
                seq, cfg, bpc, banners, ops>>

\* the thread-local contexts and the last structured record
ctxVars == <<tls_ctx_, given, got, line>>

\* the argument and result of the string function under study
pureVars == <<arg, res>>

\* the scope guards and their callbacks
guardVars == <<guards, heap, invoked>>

\* the state outside the Logger and its context store
otherVars == <<pureVars, guardVars>>

\* the state no Logger configuration or delivery step touches
aux == <<ctxVars, otherVars>>

vars == <<loggerVars, ret, aux>>

\* a thread that got nothing back yet
NoReturn == "none"

\* a thread that is in no Logger call
NoCall == [op |-> "none", lvl |-> "OFF", spd |-> 0, enc |-> FALSE]

\* ------------------------------------------------------- spdlog::logger
\* logger::should_log(msg_level): msg_level >= level_
should_log(lg, msg_level) == msg_level >= lg.level

\* a logger built by the constructor or by setAsync
MakeLogger(lvl, flush, async) == [level |-> lvl, flush |-> flush, async |-> async]

\* ------------------------------------------------------- text
\* a std::string is its sequence of bytes, each 0..255
\* "level"
S_level == <<108, 101, 118, 101, 108>>
\* "msg"
S_msg == <<109, 115, 103>>
\* "rid"
S_rid == <<114, 105, 100>>
\* "mod"
S_mod == <<109, 111, 100>>
\* "true"
S_true == <<116, 114, 117, 101>>
\* "false"
S_false == <<102, 97, 108, 115, 101>>
\* "status"
S_status == <<115, 116, 97, 116, 117, 115>>
\* "duration_ms"
S_duration_ms == <<100, 117, 114, 97, 116, 105, 111, 110, 95, 109, 115>>
\* "_ms"
S_ms == <<95, 109, 115>>
\* "method"
S_method == <<109, 101, 116, 104, 111, 100>>
\* "path"
S_path == <<112, 97, 116, 104>>

\* the digits of the \u00XX escape: "0123456789abcdef"
hex == <<48, 49, 50, 51, 52, 53, 54, 55, 56, 57, 97, 98, 99, 100, 101, 102>>

\* static_cast<unsigned char>(ch)
UChar(ch) == ch % 256

\* variant: only the named escapes, every other byte copied
EscapeNamedOnly(ch) ==
  CASE ch = 34 -> <<92, 34>>
    [] ch = 92 -> <<92, 92>>
    [] ch = 8 -> <<92, 98>>
    [] ch = 12 -> <<92, 102>>
    [] ch = 10 -> <<92, 110>>
    [] ch = 13 -> <<92, 114>>
    [] ch = 9 -> <<92, 116>>
    [] OTHER -> <<ch>>

\* the switch of appendJsonEscaped on one char: \" \\ \b \f \n \r \t, then
\* \u00XX below 0x20, else the byte itself
EscapeChar(ch) ==
  CASE ch = 34 -> <<92, 34>>
    [] ch = 92 -> <<92, 92>>
    [] ch = 8 -> <<92, 98>>
    [] ch = 12 -> <<92, 102>>
    [] ch = 10 -> <<92, 110>>
    [] ch = 13 -> <<92, 114>>
    [] ch = 9 -> <<92, 116>>
    [] OTHER ->
         IF UChar(ch) < 32
           THEN <<92, 117, 48, 48, hex[((UChar(ch) \div 16) % 16) + 1],
                  hex[(UChar(ch) % 16) + 1]>>
           ELSE <<ch>>

\* what the loop of appendJsonEscaped appends for s: the escape of every char,
\* in order
RECURSIVE Escaped(_)
Escaped(s) == IF s = <<>> THEN <<>> ELSE EscapeChar(Head(s)) \o Escaped(Tail(s))

\* Logger::appendJsonEscaped(out, s)
appendJsonEscaped(out, s) == out \o Escaped(s)

\* Logger::appendJsonKey(out, key)
appendJsonKey(out, key) == appendJsonEscaped(out \o <<34>>, key) \o <<34, 58>>

\* Logger::appendJsonStringValue(out, value)
appendJsonStringValue(out, value) == appendJsonEscaped(out \o <<34>>, value) \o <<34>>

\* fmt::format("{}", n) of an integer: its decimal digits
RECURSIVE Digits(_)
Digits(n) == IF n < 10 THEN <<48 + n>> ELSE Digits(n \div 10) \o <<48 + (n % 10)>>

FormatInt(n) == IF n < 0 THEN <<45>> \o Digits(0 - n) ELSE Digits(n)

\* a value of a key/value pair as logf receives it: a bool, an integer or a string
BoolArg(x) == [ty |-> "bool", b |-> x, n |-> 0, s |-> <<>>]
IntArg(x) == [ty |-> "int", b |-> FALSE, n |-> x, s |-> <<>>]
StrArg(x) == [ty |-> "str", b |-> FALSE, n |-> 0, s |-> x]

\* Logger::appendJsonValue(out, v)
appendJsonValue(out, v) ==
  CASE v.ty = "bool" -> out \o (IF v.b THEN S_true ELSE S_false)
    [] v.ty = "int" -> out \o FormatInt(v.n)
    [] OTHER -> appendJsonStringValue(out, v.s)

\* Logger::levelToString
levelToString(level) ==
  CASE level = "TRACE" -> <<116, 114, 97, 99, 101>>
    [] level = "DEBUG" -> <<100, 101, 98, 117, 103>>
    [] level = "INFO" -> <<105, 110, 102, 111>>
    [] level = "WARN" -> <<119, 97, 114, 110>>
    [] level = "ERROR" -> <<101, 114, 114, 111, 114>>
    [] level = "CRITICAL" -> <<99, 114, 105, 116, 105, 99, 97, 108>>
    [] level = "OFF" -> <<111, 102, 102>>
    [] OTHER -> <<105, 110, 102, 111>>

\* ------------------------------------------------------- Context
\* Logger::Context without fields
NoFields == [k \in {} |-> <<>>]

\* Logger::Context(): request_id(), module(), fields()
EmptyContext == [request_id |-> <<>>, module |-> <<>>, fields |-> NoFields]

\* {request_id: "r-1", module: "auth"}
CtxA == [request_id |-> <<114, 45, 49>>, module |-> <<97, 117, 116, 104>>, fields |-> NoFields]

\* {module: "db", fields: {"ip": "::1", "u\"": "a\nb"}}
CtxB ==
  [request_id |-> <<>>, module |-> <<100, 98>>,
   fields |-> (<<105, 112>> :> <<58, 58, 49>> @@ <<117, 34>> :> <<97, 10, 98>>)]

\* the contexts threads pass to setContext
Contexts == {EmptyContext, CtxA, CtxB}

\* the orders in which std::unordered_map may iterate c.fields
FieldOrders(c) ==
  {o \in [1..Cardinality(DOMAIN c.fields) -> DOMAIN c.fields] :
     \A i, j \in DOMAIN o : i # j => o[i] # o[j]}

\* ------------------------------------------------------- buildJsonLine
\* variant: rid is written whether or not request_id is empty
HasRidAlways(c) == TRUE

\* !c.request_id.empty()
HasRid(c) == c.request_id # <<>>

\* !c.module.empty()
HasMod(c) == c.module # <<>>

\* for (const auto &it : c.fields): "," key value, in the map's iteration order
RECURSIVE appendJsonFields(_, _, _)
appendJsonFields(out, c, ord) ==
  IF ord = <<>> THEN out
  ELSE appendJsonFields(
         appendJsonStringValue(appendJsonKey(out \o <<44>>, Head(ord)), c.fields[Head(ord)]),
         c, Tail(ord))

\* Logger::appendJsonKV(out, k, v, rest...): at least one pair
RECURSIVE appendJsonKV(_, _)
appendJsonKV(out, kvs) ==
  LET o == appendJsonValue(appendJsonKey(out \o <<44>>, kvs[1].k), kvs[1].v)
  IN IF Len(kvs) > 1 THEN appendJsonKV(o, Tail(kvs)) ELSE o

\* Logger::buildJsonLine(level, msg, kvpairs...) with c = ctx()
buildJsonLine(level, msg, c, ord, kvs) ==
  LET o1 == appendJsonStringValue(appendJsonKey(<<123>>, S_level), levelToString(level))
              \o <<44>>
      o2 == appendJsonStringValue(appendJsonKey(o1, S_msg), msg)
      o3 == IF HasRid(c)
              THEN appendJsonStringValue(appendJsonKey(o2 \o <<44>>, S_rid), c.request_id)
              ELSE o2
      o4 == IF HasMod(c)
              THEN appendJsonStringValue(appendJsonKey(o3 \o <<44>>, S_mod), c.module)
              ELSE o3
      o5 == appendJsonFields(o4, c, ord)
  IN appendJsonKV(o5, kvs) \o <<125>>

\* ------------------------------------------------------- buildJsonPretty
\* "\033[<n>m"
Esc(n) == <<27, 91>> \o Digits(n) \o <<109>>

\* Logger::ansi_wrap(code, s, on)
ansi_wrap(code, s, on) == IF ~on THEN s ELSE code \o s \o Esc(0)

c_red(s, on) == ansi_wrap(Esc(31), s, on)
c_blue(s, on) == ansi_wrap(Esc(34), s, on)
c_dim(s, on) == ansi_wrap(Esc(2), s, on)
c_key(s, on) == ansi_wrap(Esc(36), s, on)
c_str(s, on) == ansi_wrap(Esc(32), s, on)
c_num(s, on) == ansi_wrap(Esc(33), s, on)
c_bool(s, on) == ansi_wrap(Esc(35), s, on)
c_punc(s, on) == ansi_wrap(Esc(90), s, on)

\* Logger::c_http_status(code, on)
c_http_status(code, on) ==
  IF ~on THEN FormatInt(code)
  ELSE IF code >= 200 /\ code < 300 THEN ansi_wrap(Esc(32), FormatInt(code), TRUE)
  ELSE IF code >= 300 /\ code < 400 THEN ansi_wrap(Esc(36), FormatInt(code), TRUE)
  ELSE IF code >= 400 /\ code < 500 THEN ansi_wrap(Esc(33), FormatInt(code), TRUE)
  ELSE IF code >= 500 /\ code < 600 THEN ansi_wrap(Esc(31), FormatInt(code), TRUE)
  ELSE ansi_wrap(Esc(90), FormatInt(code), TRUE)

\* Logger::ends_with(s, suf)
ends_with(s, suf) ==
  Len(s) >= Len(suf) /\ SubSeq(s, Len(s) - Len(suf) + 1, Len(s)) = suf

\* "\"" + escaped(v) + "\""
Quoted(v) == <<34>> \o appendJsonEscaped(<<>>, v) \o <<34>>

\* the value of one pair in appendJsonPrettyKV, by type and by key
PrettyValue(k, v, color) ==
  CASE v.ty = "bool" -> c_bool(IF v.b THEN S_true ELSE S_false, color)
    [] v.ty = "int" ->
         IF k = S_status THEN c_http_status(v.n, color)
         ELSE IF k = S_duration_ms \/ ends_with(k, S_ms)
                THEN c_dim(c_blue(FormatInt(v.n), color), color)
                ELSE c_num(FormatInt(v.n), color)
    [] OTHER ->
         IF k = S_method \/ k = S_path
           THEN ansi_wrap(Esc(36), Quoted(v.s), color)
           ELSE c_str(Quoted(v.s), color)

\* Logger::appendJsonPrettyKV(out, color, k, v, rest...)
RECURSIVE appendJsonPrettyKV(_, _, _)
appendJsonPrettyKV(out, color, kvs) ==
  IF kvs = <<>> THEN out
  ELSE appendJsonPrettyKV(
         out \o <<32, 32>> \o c_key(<<34>> \o kvs[1].k \o <<34>>, color)
             \o c_punc(<<58, 32>>, color) \o PrettyValue(kvs[1].k, kvs[1].v, color)
             \o c_punc(<<44, 10>>, color),
         color, Tail(kvs))

\* the lambda add_str of buildJsonPretty: one string field on its line
add_str(out, k, v, color) ==
  out \o <<32, 32>> \o c_key(<<34>> \o k \o <<34>>, color) \o c_punc(<<58, 32>>, color)
      \o c_str(Quoted(v), color) \o c_punc(<<44, 10>>, color)

\* for (const auto &it : c.fields) add_str(it.first, it.second)
RECURSIVE addFields(_, _, _, _)
addFields(out, c, ord, color) ==
  IF ord = <<>> THEN out
  ELSE addFields(add_str(out, Head(ord), c.fields[Head(ord)], color), c, Tail(ord), color)

\* if (ends_with_plain(",\n")) { pop_back; pop_back; out += "\n"; }
DropTrailingComma(out) ==
  IF ends_with(out, <<44, 10>>) THEN SubSeq(out, 1, Len(out) - 2) \o <<10>> ELSE out

\* Logger::buildJsonPretty(level, msg, kvpairs...) with c = ctx() and
\* color = jsonColorsEnabled()
buildJsonPretty(level, msg, c, ord, kvs, color) ==
  LET o1 == add_str(c_punc(<<123, 10>>, color), S_level, levelToString(level), color)
      o2 == add_str(o1, S_msg, msg, color)
      o3 == IF HasRid(c) THEN add_str(o2, S_rid, c.request_id, color) ELSE o2
      o4 == IF HasMod(c) THEN add_str(o3, S_mod, c.module, color) ELSE o3
      o5 == addFields(o4, c, ord, color)
      o6 == DropTrailingComma(appendJsonPrettyKV(o5, color, kvs))
      o7 == o6 \o c_punc(<<125>>, color)
  IN IF color THEN o7 \o Esc(0) ELSE o7

\* no structured call rendered yet
NoLine == [tid |-> "none"]

\* no string passed yet
NoArg == [fn |-> "none"]

\* the places a ScopeGuard can live in and the callables a run can store
Guards == 1..MaxGuards
Callbacks == 1..MaxCallbacks

\* data_ of a guard that owns no callable
nullptr == 0

\* a place that holds no ScopeGuard
NoGuard == [alive |-> FALSE, data_ |-> nullptr, active_ |-> FALSE]

\* ------------------------------------------------------- Logger::Logger
\* variant: the flag starts unset
console_banner_done_unset == FALSE

\* console_banner_done(): static bool done = true
console_banner_done_init == TRUE

\* setFormat's choice of sink pattern for a format
PatternFor(f) == IF f = "JSON" \/ f = "JSON_PRETTY" THEN RawPattern ELSE DefaultPattern

\* setFormat's choice of flush threshold for a format
FlushFor(f) == IF f = "JSON" \/ f = "JSON_PRETTY" THEN spd_info ELSE spd_warn

\* values VIX_LOG_FORMAT can resolve to at construction (unset: KV)
EnvFormats == {"KV", "JSON"}

\* the Logger singleton after construction
LoggerInit ==
  /\ consoleSync \in BOOLEAN
  /\ \E ok \in BOOLEAN, l \in EnvLevels, f \in EnvFormats :
       /\ loggers = IF ok THEN <<MakeLogger(toSpdLevel(l), spd_warn, FALSE)>> ELSE <<>>
       /\ spd_ = IF ok THEN 1 ELSE 0
       /\ cfg = IF ok THEN l ELSE "OFF"
       /\ format_ = IF ok THEN f ELSE "KV"
       /\ pattern = IF ok THEN PatternFor(f) ELSE DefaultPattern
  /\ mutex_ = Free
  /\ console_mutex = Free
  /\ banner_done = console_banner_done_init
  /\ thread_pool = FALSE
  /\ queue = <<>>
  /\ overrun_counter = 0
  /\ sink = <<>>
  /\ pc = [t \in Threads |-> "idle"]
  /\ call = [t \in Threads |-> NoCall]
  /\ seq = [t \in Threads |-> 0]
  /\ bpc = "idle"
  /\ banners = 0
  /\ ops = 0
  /\ ret = [t \in Threads |-> NoReturn]

\* thread_local Context tls_ctx_: every thread starts with Context{}
ContextInit ==
  /\ tls_ctx_ = [t \in Threads |-> EmptyContext]
  /\ given = [t \in Threads |-> <<>>]
  /\ got = [t \in Threads |-> <<>>]
  /\ line = NoLine

\* no string function called
PureIdle == arg = NoArg /\ res = <<>>

\* no ScopeGuard constructed, no callback run
GuardInit ==
  /\ guards = [g \in Guards |-> NoGuard]
  /\ heap = [f \in Callbacks |-> "unmade"]
  /\ invoked = [f \in Callbacks |-> 0]

Init == LoggerInit /\ ContextInit /\ PureIdle /\ GuardInit

\* ------------------------------------------------------- delivery pipeline
\* a record as handed to spdlog: who logged it, its per-thread number (0 for
\* the line setAsync logs) and the sink pattern at that time
Record(t, n, pat) == [tid |-> t, n |-> n, patLog |-> pat]

\* the physical write of a record by the console sink: the sink formats with
\* the pattern it has now; held/done/bcs record the console coordinator's
\* state at the write
Written(r, via, held) ==
  [tid |-> r.tid, n |-> r.n, patLog |-> r.patLog, pat |-> pattern, via |-> via, held |-> held, done |-> banner_done,
   bcs |-> (console_mutex = BannerThread)]

\* async_overflow_policy::overrun_oldest: a full queue gives up its oldest entry
EnqueueOverrun(q, r) == IF Len(q) >= QueueBound THEN Append(Tail(q), r) ELSE Append(q, r)

\* variant: an overwritten entry is not counted
OverrunsUncounted(q) == 0

\* the number of entries the enqueue overwrote
Overruns(q) == IF Len(q) >= QueueBound THEN 1 ELSE 0

\* variant: the worker takes the newest entry first
DequeueNewest(q) == [entry |-> q[Len(q)], rest |-> SubSeq(q, 1, Len(q) - 1)]

\* the thread pool's dequeue: the oldest entry leaves the queue
Dequeue(q) == [entry |-> Head(q), rest |-> Tail(q)]

\* variant: setAsync starts a fresh thread pool, dropping what was queued
QueueResetBySetAsync(q, enable) == IF enable THEN <<>> ELSE q

\* setAsync keeps the process-wide thread pool and whatever it still holds
QueueAfterSetAsync(q, enable) == q

\* ------------------------------------------------------- log / logModule / logf
\* variant: no identity check of Off
NoOffCheck(level) == FALSE

\* if (level == Level::OFF) return;
IsOffCall(level) == level = "OFF"

\* variant: logModule builds its prefixed message before the gate
ModuleEncodedBeforeGate(op) == op = "logModule"

\* formatting work done before the level gate
EncodedBeforeGate(op) == FALSE

\* the level gate: spd_ non-null and spd_->should_log(toSpdLevel(level))
PassesGate(level) == spd_ # 0 /\ should_log(loggers[spd_], toSpdLevel(level))

\* variant: logf releases mutex_ after the gate, like log
ReleasesMutexAfterGate(op) == FALSE

\* whether the console lock taken after waitForBanner is still held at spd->log
HoldsConsoleForWrite(op) == op # "logf"

\* logf holds mutex_ from the gate to its return; log and logModule release it
HoldsMutexAfterGate(op) == op = "logf"

LogOps == {"log", "logModule", "logf"}

\* variant: throwError returns to its caller like log does
ReturnsNormally(op) == "idle"

\* where a call goes on when its logging is over: throwError still has its
\* throw statement ahead, log/logModule/logf return
ReturnPoint(op) == IF op = "throwError" THEN "throw" ELSE "idle"

\* the locals still live at that point
CallAfterLog(c) ==
  IF c.op = "throwError" THEN [NoCall EXCEPT !.op = c.op, !.lvl = c.lvl] ELSE NoCall

\* entry of log/logModule/logf up to the Off check
CallLog(t, op, level) ==
  /\ pc[t] = "idle" /\ ops < MaxOps
  /\ ops' = ops + 1
  /\ seq' = [seq EXCEPT ![t] = @ + 1]
  /\ call' = [call EXCEPT ![t] = [NoCall EXCEPT !.op = op, !.lvl = level,
                                                !.enc = EncodedBeforeGate(op)]]
  /\ pc' = [pc EXCEPT ![t] = IF IsOffCall(level) THEN "off" ELSE "gate"]
  /\ UNCHANGED <<consoleSync, loggers, spd_, mutex_, format_, pattern, console_mutex,
                 banner_done, thread_pool, queue, overrun_counter, sink, cfg, bpc,
                 banners,
                 ret, aux>>

\* the return of a call whose level is Off
OffReturn(t) ==
  /\ pc[t] = "off"
  /\ pc' = [pc EXCEPT ![t] = "idle"]
  /\ call' = [call EXCEPT ![t] = NoCall]
  /\ UNCHANGED <<consoleSync, loggers, spd_, mutex_, format_, pattern, console_mutex,
                 banner_done, thread_pool, queue, overrun_counter, sink, seq, cfg,
                 bpc, banners, ops,
                 ret, aux>>

\* the block under mutex_: spd = spd_, null check, should_log; logModule then
\* formats its prefixed message
Gate(t) ==
  /\ pc[t] = "gate" /\ mutex_ = Free
  /\ IF PassesGate(call[t].lvl)
       THEN /\ call' = [call EXCEPT ![t].spd = spd_,
                                    ![t].enc = @ \/ (call[t].op = "logModule")]
            /\ pc' = [pc EXCEPT ![t] = IF consoleSync THEN "wait" ELSE "write"]
            /\ mutex_' = IF HoldsMutexAfterGate(call[t].op) THEN t ELSE Free
       ELSE /\ call' = [call EXCEPT ![t] = CallAfterLog(call[t])]
            /\ pc' = [pc EXCEPT ![t] = ReturnPoint(call[t].op)]
            /\ mutex_' = Free
  /\ UNCHANGED <<consoleSync, loggers, spd_, format_, pattern, console_mutex,
                 banner_done, thread_pool, queue, overrun_counter, sink, seq, cfg,
                 bpc, banners, ops,
                 ret, aux>>

\* console_wait_banner(): returns once console_banner_done()
WaitBanner(t) ==
  /\ pc[t] = "wait" /\ banner_done
  /\ pc' = [pc EXCEPT ![t] = "lock"]
  /\ UNCHANGED <<consoleSync, loggers, spd_, mutex_, format_, pattern, console_mutex,
                 banner_done, thread_pool, queue, overrun_counter, sink, call, seq,
                 cfg, bpc, banners, ops,
                 ret, aux>>

\* console_wait_banner() with the flag unset: the caller sleeps in
\* console_cv().wait until it is notified
SleepOnBanner(t) ==
  /\ pc[t] = "wait" /\ ~banner_done
  /\ pc' = [pc EXCEPT ![t] = "blocked"]
  /\ UNCHANGED <<consoleSync, loggers, spd_, mutex_, format_, pattern, console_mutex,
                 banner_done, thread_pool, queue, overrun_counter, sink, call, seq,
                 cfg, bpc, banners, ops,
                 ret, aux>>

\* std::lock_guard lk(console_mutex()); in logf the guard dies with its block
LockConsole(t) ==
  /\ pc[t] = "lock" /\ console_mutex = Free
  /\ console_mutex' = IF HoldsConsoleForWrite(call[t].op) THEN t ELSE Free
  /\ pc' = [pc EXCEPT ![t] = "write"]
  /\ UNCHANGED <<consoleSync, loggers, spd_, mutex_, format_, pattern, banner_done,
                 thread_pool, queue, overrun_counter, sink, call, seq, cfg, bpc,
                 banners, ops,
                 ret, aux>>

\* spd->log(...): spdlog re-checks the level of that logger, formats, then a
\* synchronous logger writes to the sink and an asynchronous one enqueues
Write(t) ==
  /\ pc[t] = "write"
  /\ LET lg == loggers[call[t].spd]
         r == Record(t, seq[t], pattern)
     IN IF should_log(lg, toSpdLevel(call[t].lvl))
          THEN IF lg.async
                 THEN /\ queue' = EnqueueOverrun(queue, r)
                      /\ overrun_counter' = overrun_counter + Overruns(queue)
                      /\ sink' = sink
                 ELSE /\ sink' = Append(sink, Written(r, "direct", console_mutex = t))
                      /\ UNCHANGED <<queue, overrun_counter>>
          ELSE UNCHANGED <<queue, overrun_counter, sink>>
  /\ console_mutex' = IF console_mutex = t THEN Free ELSE console_mutex
  /\ mutex_' = IF mutex_ = t THEN Free ELSE mutex_
  /\ pc' = [pc EXCEPT ![t] = ReturnPoint(call[t].op)]
  /\ call' = [call EXCEPT ![t] = CallAfterLog(call[t])]
  /\ UNCHANGED <<consoleSync, loggers, spd_, format_, pattern, banner_done,
                 thread_pool, seq, cfg, bpc, banners, ops,
                 ret, aux>>

\* the thread-pool worker: async_logger::backend_sink_it_ on the next entry
Worker ==
  /\ queue # <<>>
  /\ sink' = Append(sink, Written(Dequeue(queue).entry, "worker", FALSE))
  /\ queue' = Dequeue(queue).rest
  /\ UNCHANGED <<consoleSync, loggers, spd_, mutex_, format_, pattern, console_mutex,
                 banner_done, thread_pool, overrun_counter, pc, call, seq, cfg,
                 bpc, banners, ops,
                 ret, aux>>

\* ------------------------------------------------------- configuration
\* Logger::setLevel
setLevel(t, level) ==
  /\ pc[t] = "idle" /\ ops < MaxOps /\ mutex_ = Free
  /\ ops' = ops + 1
  /\ IF spd_ # 0
       THEN /\ loggers' = [loggers EXCEPT ![spd_].level = toSpdLevel(level)]
            /\ cfg' = level
       ELSE UNCHANGED <<loggers, cfg>>
  /\ UNCHANGED <<consoleSync, spd_, mutex_, format_, pattern, console_mutex,
                 banner_done, thread_pool, queue, overrun_counter, sink, pc, call,
                 seq, bpc, banners,
                 ret, aux>>

\* Logger::setFormat
setFormat(t, f) ==
  /\ pc[t] = "idle" /\ ops < MaxOps /\ mutex_ = Free
  /\ ops' = ops + 1
  /\ format_' = f
  /\ IF spd_ # 0
       THEN /\ pattern' = PatternFor(f)
            /\ loggers' = [loggers EXCEPT ![spd_].flush = FlushFor(f)]
       ELSE UNCHANGED <<pattern, loggers>>
  /\ UNCHANGED <<consoleSync, spd_, mutex_, console_mutex, banner_done, thread_pool,
                 queue, overrun_counter, sink, pc, call, seq, cfg, bpc,
                 banners,
                 ret, aux>>

\* Logger::setPattern
setPattern(t, p) ==
  /\ pc[t] = "idle" /\ ops < MaxOps /\ mutex_ = Free
  /\ ops' = ops + 1
  /\ pattern' = IF spd_ # 0 THEN p ELSE pattern
  /\ UNCHANGED <<consoleSync, loggers, spd_, mutex_, format_, console_mutex,
                 banner_done, thread_pool, queue, overrun_counter, sink, pc, call,
                 seq, cfg, bpc, banners,
                 ret, aux>>

\* variant: the new logger keeps spdlog's default level
SwitchedLoggerDefaultLevel(old, enable) == MakeLogger(spd_info, old.flush, enable)

\* variant: the new logger keeps spdlog's default flush level
SwitchedLoggerDefaultFlush(old, enable) == MakeLogger(old.level, spd_off, enable)

\* the logger setAsync builds: same sinks, level and flush level copied
SwitchedLogger(old, enable) == MakeLogger(old.level, old.flush, enable)

\* the line setAsync(false) logs through the new synchronous logger
SwitchLine(t) == Record(t, 0, pattern)

\* Logger::setAsync
setAsync(t, enable) ==
  /\ pc[t] = "idle" /\ ops < MaxOps /\ mutex_ = Free
  /\ ops' = ops + 1
  /\ IF spd_ # 0
       THEN LET new == SwitchedLogger(loggers[spd_], enable)
            IN /\ loggers' = Append(loggers, new)
               /\ spd_' = Len(loggers) + 1
               /\ thread_pool' = (thread_pool \/ enable)
               /\ queue' = QueueAfterSetAsync(queue, enable)
               /\ sink' = IF ~enable /\ should_log(new, spd_debug)
                            THEN Append(sink, Written(SwitchLine(t), "direct", FALSE))
                            ELSE sink
       ELSE UNCHANGED <<loggers, spd_, thread_pool, queue, sink>>
  /\ UNCHANGED <<consoleSync, mutex_, format_, pattern, console_mutex, banner_done,
                 overrun_counter, pc, call, seq, cfg, bpc, banners,
                 ret, aux>>

\* ------------------------------------------------------- throwError
\* Logger::throwError up to the Off check of its log(Level::ERROR, "{}", msg):
\* the message is formatted first
throwError(t) ==
  /\ pc[t] = "idle" /\ ops < MaxOps
  /\ ops' = ops + 1
  /\ seq' = [seq EXCEPT ![t] = @ + 1]
  /\ call' = [call EXCEPT ![t] = [NoCall EXCEPT !.op = "throwError", !.lvl = "ERROR",
                                                !.enc = TRUE]]
  /\ pc' = [pc EXCEPT ![t] = IF IsOffCall("ERROR") THEN "off" ELSE "gate"]
  /\ UNCHANGED <<consoleSync, loggers, spd_, mutex_, format_, pattern, console_mutex,
                 banner_done, thread_pool, queue, overrun_counter, sink, cfg, bpc,
                 banners, ret, aux>>

\* throw std::runtime_error(msg): the exception leaves throwError
Throw(t) ==
  /\ pc[t] = "throw"
  /\ ret' = [ret EXCEPT ![t] = "runtime_error"]
  /\ pc' = [pc EXCEPT ![t] = "idle"]
  /\ call' = [call EXCEPT ![t] = NoCall]
  /\ UNCHANGED <<consoleSync, loggers, spd_, mutex_, format_, pattern, console_mutex,
                 banner_done, thread_pool, queue, overrun_counter, sink, seq, cfg,
                 bpc, banners, ops, aux>>

\* ------------------------------------------------------- level / enabled
\* level(): the mapping of spd_->level() back to Level
LevelOfLogger(lg) ==
  CASE lg.level = spd_trace -> "TRACE"
    [] lg.level = spd_debug -> "DEBUG"
    [] lg.level = spd_info -> "INFO"
    [] lg.level = spd_warn -> "WARN"
    [] lg.level = spd_err -> "ERROR"
    [] lg.level = spd_critical -> "CRITICAL"
    [] OTHER -> "OFF"

\* variant: without a logger level() reports the default level
LevelOfNullInfo(i) == IF i = 0 THEN "INFO" ELSE LevelOfLogger(loggers[i])

\* Logger::level(): Off without a logger, else the current logger's level
LevelOf(i) == IF i = 0 THEN "OFF" ELSE LevelOfLogger(loggers[i])

\* Logger::enabled(lvl): false without a logger, else should_log on the mapped level
EnabledOf(i, lvl) == IF i = 0 THEN FALSE ELSE should_log(loggers[i], toSpdLevel(lvl))

\* a bool as the caller sees it
BoolValue(b) == IF b THEN "true" ELSE "false"

\* Logger::level() called by a thread, under mutex_
Logger_level(t) ==
  /\ pc[t] = "idle" /\ ops < MaxOps /\ mutex_ = Free
  /\ ops' = ops + 1
  /\ ret' = [ret EXCEPT ![t] = LevelOf(spd_)]
  /\ UNCHANGED <<consoleSync, loggers, spd_, mutex_, format_, pattern, console_mutex,
                 banner_done, thread_pool, queue, overrun_counter, sink, pc, call,
                 seq, cfg, bpc, banners, aux>>

\* Logger::enabled(lvl) called by a thread, under mutex_
enabled(t, lvl) ==
  /\ pc[t] = "idle" /\ ops < MaxOps /\ mutex_ = Free
  /\ ops' = ops + 1
  /\ ret' = [ret EXCEPT ![t] = BoolValue(EnabledOf(spd_, lvl))]
  /\ UNCHANGED <<consoleSync, loggers, spd_, mutex_, format_, pattern, console_mutex,
                 banner_done, thread_pool, queue, overrun_counter, sink, pc, call,
                 seq, cfg, bpc, banners, aux>>

\* ------------------------------------------------------- emit_server_ready
\* console_reset_banner()
BannerReset ==
  /\ bpc = "idle" /\ banners < MaxBanners
  /\ banners' = banners + 1
  /\ banner_done' = FALSE
  /\ bpc' = "reset"
  /\ UNCHANGED <<consoleSync, loggers, spd_, mutex_, format_, pattern, console_mutex,
                 thread_pool, queue, overrun_counter, sink, pc, call, seq, cfg,
                 ops,
                 ret, aux>>

\* std::lock_guard lk(console_mutex()) around the banner lines
BannerLock ==
  /\ bpc = "reset" /\ console_mutex = Free
  /\ console_mutex' = BannerThread
  /\ bpc' = "print"
  /\ UNCHANGED <<consoleSync, loggers, spd_, mutex_, format_, pattern, banner_done,
                 thread_pool, queue, overrun_counter, sink, pc, call, seq, cfg, banners, ops,
                 ret, aux>>

\* the banner lines are out, the lock_guard's block ends
BannerUnlock ==
  /\ bpc = "print"
  /\ console_mutex' = Free
  /\ bpc' = "printed"
  /\ UNCHANGED <<consoleSync, loggers, spd_, mutex_, format_, pattern, banner_done,
                 thread_pool, queue, overrun_counter, sink, pc, call, seq, cfg, banners, ops,
                 ret, aux>>

\* variant: console_cv().notify_one(): a single sleeper is woken
notify_one(p) ==
  LET asleep == {t \in Threads : p[t] = "blocked"}
  IN IF asleep = {} THEN p ELSE [p EXCEPT ![CHOOSE t \in asleep : TRUE] = "wait"]

\* console_cv().notify_all(): every sleeper wakes and evaluates the flag again
notify_all(p) == [t \in Threads |-> IF p[t] = "blocked" THEN "wait" ELSE p[t]]

\* console_mark_banner_done(): done = true, notify_all
BannerMarkDone ==
  /\ bpc = "printed"
  /\ banner_done' = TRUE
  /\ pc' = notify_all(pc)
  /\ bpc' = "idle"
  /\ UNCHANGED <<consoleSync, loggers, spd_, mutex_, format_, pattern, console_mutex,
                 thread_pool, queue, overrun_counter, sink, call, seq, cfg, banners, ops,
                 ret, aux>>

\* ------------------------------------------------------- specification
DoCallLog == \E t \in Threads, op \in LogOps, l \in CallLevels : CallLog(t, op, l)
DoOffReturn == \E t \in Threads : OffReturn(t)
DoGate == \E t \in Threads : Gate(t)
DoWaitBanner == \E t \in Threads : WaitBanner(t)
DoSleepOnBanner == \E t \in Threads : SleepOnBanner(t)
DoLockConsole == \E t \in Threads : LockConsole(t)
DoWrite == \E t \in Threads : Write(t)
DoSetLevel == \E t \in Threads, l \in SetLevels : setLevel(t, l)
DoSetFormat == \E t \in Threads, f \in SetFormats : setFormat(t, f)
DoSetPattern == \E t \in Threads, p \in SetPatterns : setPattern(t, p)
DoSetAsync == \E t \in Threads, en \in BOOLEAN : setAsync(t, en)

Next ==
  \/ DoCallLog
  \/ DoOffReturn
  \/ DoGate
  \/ DoWaitBanner
  \/ DoSleepOnBanner
  \/ DoLockConsole
  \/ DoWrite
  \/ Worker
  \/ DoSetLevel
  \/ DoSetFormat
  \/ DoSetPattern
  \/ DoSetAsync
  \/ BannerReset
  \/ BannerLock
  \/ BannerUnlock
  \/ BannerMarkDone

Spec == Init /\ [][Next]_vars

\* ------------------------------------------------------- the whole API
DoThrowError == \E t \in Threads : throwError(t)
DoThrow == \E t \in Threads : Throw(t)
DoLevel == \E t \in Threads : Logger_level(t)
DoEnabled == \E t \in Threads, l \in QueryLevels : enabled(t, l)

\* configuration, logging, throwError and the two queries, ApiOps calls in all
ApiNext ==
  /\ \/ Next
     \/ DoThrowError
     \/ DoThrow
     \/ DoLevel
     \/ DoEnabled
  /\ ops' <= ApiOps

ApiSpec == Init /\ [][ApiNext]_vars

\* ------------------------------------------------------- progress
\* the runs checked for progress: console-sync on, the logger constructed, and
\* at most LiveOps API calls
LiveInit == Init /\ consoleSync /\ spd_ # 0

LiveNext == Next /\ ops' <= LiveOps

\* the scheduler keeps running every thread that can take a step, and a mutex
\* that keeps becoming free is eventually given to each thread asking for it;
\* nothing obliges the application to start a call or the server a banner
Fairness ==
  /\ \A t \in Threads :
       /\ WF_vars(OffReturn(t))
       /\ SF_vars(Gate(t))
       /\ WF_vars(WaitBanner(t))
       /\ WF_vars(SleepOnBanner(t))
       /\ SF_vars(LockConsole(t))
       /\ WF_vars(Write(t))
  /\ WF_vars(Worker)
  /\ SF_vars(BannerLock)
  /\ WF_vars(BannerUnlock)
  /\ WF_vars(BannerMarkDone)

FairSpec == LiveInit /\ [][LiveNext]_vars /\ Fairness

\* ------------------------------------------------------- Context Store
\* variant: the new context laid over the old one
Merged(old, new) ==
  [request_id |-> IF new.request_id = <<>> THEN old.request_id ELSE new.request_id,
   module |-> IF new.module = <<>> THEN old.module ELSE new.module,
   fields |-> new.fields @@ old.fields]

\* tls_ctx_ = std::move(ctx)
Assigned(old, new) == new

\* Logger::setContext
setContext(t, c) ==
  /\ pc[t] = "idle"
  /\ tls_ctx_' = [tls_ctx_ EXCEPT ![t] = Assigned(@, c)]
  /\ given' = [given EXCEPT ![t] = <<c>>]
  /\ UNCHANGED <<got, line, loggerVars, ret, otherVars>>

\* Logger::clearContext
clearContext(t) ==
  /\ pc[t] = "idle"
  /\ tls_ctx_' = [tls_ctx_ EXCEPT ![t] = EmptyContext]
  /\ given' = [given EXCEPT ![t] = <<>>]
  /\ UNCHANGED <<got, line, loggerVars, ret, otherVars>>

\* Logger::getContext
getContext(t) ==
  /\ pc[t] = "idle"
  /\ got' = [got EXCEPT ![t] = <<tls_ctx_[t]>>]
  /\ UNCHANGED <<tls_ctx_, given, line, loggerVars, ret, otherVars>>

\* ------------------------------------------------------- logf, JSON formats
\* one key with its value, as passed in kvpairs
Pair(k, v) == [k |-> k, v |-> v]

\* the kvpairs of the structured calls: "user","ada","latency_ms",12 and
\* "status",404,"ok",true,"path","/x"
KvLists ==
  {<<Pair(<<117, 115, 101, 114>>, StrArg(<<97, 100, 97>>)), Pair(<<108, 97, 116, 101, 110, 99, 121, 95, 109, 115>>, IntArg(12))>>,
   <<Pair(S_status, IntArg(404)), Pair(<<111, 107>>, BoolArg(TRUE)),
     Pair(S_path, StrArg(<<47, 120>>))>>}

\* the messages of the structured calls: "Login ok" and "a\"b\n"
Messages == {<<76, 111, 103, 105, 110, 32, 111, 107>>, <<97, 34, 98, 10>>}

\* the levels of the structured calls
EncLevels == {"INFO"}

\* Logger::logf with format_ JSON or JSON_PRETTY, a synchronous logger and
\* console sync off: the whole call runs under mutex_; c is the reference
\* ctx() returns, ord the order in which c.fields iterates, color the value
\* of jsonColorsEnabled()
logf(t, level, msg, kvs, ord, color) ==
  /\ pc[t] = "idle" /\ ops < MaxOps /\ mutex_ = Free
  /\ ~IsOffCall(level) /\ PassesGate(level)
  /\ ~consoleSync /\ ~loggers[spd_].async
  /\ format_ \in {"JSON", "JSON_PRETTY"}
  /\ ops' = ops + 1
  /\ seq' = [seq EXCEPT ![t] = @ + 1]
  /\ LET c == tls_ctx_[t]
     IN line' = [tid |-> t, fn |-> IF format_ = "JSON" THEN "buildJsonLine"
                                                      ELSE "buildJsonPretty",
                 level |-> level, msg |-> msg, kvs |-> kvs, c |-> c, ord |-> ord,
                 color |-> color,
                 out |-> IF format_ = "JSON"
                           THEN buildJsonLine(level, msg, c, ord, kvs)
                           ELSE buildJsonPretty(level, msg, c, ord, kvs, color)]
  /\ sink' = Append(sink, Written(Record(t, seq[t] + 1, pattern), "direct", FALSE))
  /\ UNCHANGED <<consoleSync, loggers, spd_, mutex_, format_, pattern, console_mutex,
                 banner_done, thread_pool, queue, overrun_counter, pc, call, cfg,
                 bpc, banners,
                 tls_ctx_, given, got, ret, otherVars>>

DoSetContext == \E t \in Threads, c \in Contexts : setContext(t, c)
DoClearContext == \E t \in Threads : clearContext(t)
DoGetContext == \E t \in Threads : getContext(t)
DoLogf ==
  \E t \in Threads, l \in EncLevels, m \in Messages, kvs \in KvLists :
    \E ord \in FieldOrders(tls_ctx_[t]),
       color \in IF format_ = "JSON_PRETTY" THEN BOOLEAN ELSE {FALSE} :
      logf(t, l, m, kvs, ord, color)

\* the run of the context store and the structured calls: a logger that
\* initialised, console sync off
CtxInit == Init /\ ~consoleSync /\ spd_ # 0

CtxNext ==
  \/ DoSetContext
  \/ DoClearContext
  \/ DoGetContext
  \/ ops < CtxOps /\ DoLogf
  \/ ops < CtxOps /\ DoSetFormat

CtxSpec == CtxInit /\ [][CtxNext]_vars

\* ------------------------------------------------------- string functions
\* the bytes the escaped strings are made of: every control byte, space, 0,
\* the quote, the slash, the backslash, a, n, u, DEL, 0x80 and 0xff
EscBytes == (0..31) \cup {32, 48, 34, 47, 92, 97, 110, 117, 127, 128, 255}

\* the strings passed to appendJsonEscaped: all of at most MaxLen bytes
EscArgs == UNION {[1..k -> EscBytes] : k \in 0..MaxLen}

\* the strings passed to parseFormat and found in VIX_LOG_FORMAT: "json", "JSON", "Json", "jSoN", "json_pretty", "JSON_PRETTY", "json-pretty", "Json-Pretty", "pretty-json", "PRETTY-JSON",
\* "kv", "KV", "bogus", "", "jsonx", "pretty_json", "json pretty", " json", "j"
FormatArgs ==
  {
   <<106, 115, 111, 110>>,
   <<74, 83, 79, 78>>,
   <<74, 115, 111, 110>>,
   <<106, 83, 111, 78>>,
   <<106, 115, 111, 110, 95, 112, 114, 101, 116, 116, 121>>,
   <<74, 83, 79, 78, 95, 80, 82, 69, 84, 84, 89>>,
   <<106, 115, 111, 110, 45, 112, 114, 101, 116, 116, 121>>,
   <<74, 115, 111, 110, 45, 80, 114, 101, 116, 116, 121>>,
   <<112, 114, 101, 116, 116, 121, 45, 106, 115, 111, 110>>,
   <<80, 82, 69, 84, 84, 89, 45, 74, 83, 79, 78>>,
   <<107, 118>>,
   <<75, 86>>,
   <<98, 111, 103, 117, 115>>,
   <<>>,
   <<106, 115, 111, 110, 120>>,
   <<112, 114, 101, 116, 116, 121, 95, 106, 115, 111, 110>>,
   <<106, 115, 111, 110, 32, 112, 114, 101, 116, 116, 121>>,
   <<32, 106, 115, 111, 110>>,
   <<106>>
  }

\* a call of a string function: set is false for an environment variable
\* that is not set
PureArgs ==
  {[fn |-> "appendJsonEscaped", set |-> TRUE, s |-> x] : x \in EscArgs}
    \cup {[fn |-> f, set |-> TRUE, s |-> x] :
            f \in {"parseFormat", "setFormatFromEnv"}, x \in FormatArgs}
    \cup {[fn |-> "setFormatFromEnv", set |-> FALSE, s |-> <<>>]}

\* std::tolower of an unsigned char in the "C" locale
tolower(uc) == IF uc >= 65 /\ uc <= 90 THEN uc + 32 ELSE uc

\* variant: the string as it is
verbatim_copy(in) == in

\* lower_copy
lower_copy(in) == [i \in 1..Len(in) |-> tolower(UChar(in[i]))]

\* Logger::parseFormat
parseFormat(s) ==
  LET v == lower_copy(s)
  IN IF v = <<106, 115, 111, 110>> THEN "JSON"
     ELSE IF v = <<106, 115, 111, 110, 45, 112, 114, 101, 116, 116, 121>> \/ v = <<112, 114, 101, 116, 116, 121, 45, 106, 115, 111, 110>>
               \/ v = <<106, 115, 111, 110, 95, 112, 114, 101, 116, 116, 121>>
            THEN "JSON_PRETTY"
            ELSE "KV"

\* a call of appendJsonEscaped on an empty out
Call_appendJsonEscaped ==
  /\ arg.fn = "appendJsonEscaped" /\ res = <<>>
  /\ res' = <<appendJsonEscaped(<<>>, arg.s)>>
  /\ UNCHANGED <<arg, loggerVars, ret, ctxVars, guardVars>>

\* a call of parseFormat
Call_parseFormat ==
  /\ arg.fn = "parseFormat" /\ res = <<>>
  /\ res' = <<parseFormat(arg.s)>>
  /\ UNCHANGED <<arg, loggerVars, ret, ctxVars, guardVars>>

\* Logger::setFormatFromEnv: raw is null or empty, or setFormat(parseFormat(raw))
setFormatFromEnv(t) ==
  /\ arg.fn = "setFormatFromEnv"
  /\ IF ~arg.set \/ arg.s = <<>>
       THEN /\ pc[t] = "idle" /\ ops < MaxOps
            /\ ops' = ops + 1
            /\ UNCHANGED <<consoleSync, loggers, spd_, mutex_, format_, pattern,
                           console_mutex, banner_done, thread_pool, queue,
                           overrun_counter, sink, pc, call, seq, cfg, bpc, banners,
                           ret, aux>>
       ELSE setFormat(t, parseFormat(arg.s))

DoSetFormatFromEnv == \E t \in Threads : setFormatFromEnv(t)

\* one string function applied to one argument; console sync off
PureInit ==
  /\ LoggerInit /\ ~consoleSync
  /\ ContextInit /\ GuardInit
  /\ arg \in PureArgs
  /\ res = <<>>

PureNext ==
  \/ Call_appendJsonEscaped
  \/ Call_parseFormat
  \/ ops < PureOps /\ DoSetFormatFromEnv

PureSpec == PureInit /\ [][PureNext]_vars

\* ------------------------------------------------------- ScopeGuard
\* variant: the source of a move keeps its callable and stays armed
MovedFromKeeps(src) == src

\* other.data_ = nullptr; other.active_ = false
MovedFrom(src) == [src EXCEPT !.data_ = nullptr, !.active_ = FALSE]

\* if (data_) { if (active_ && invoke_) invoke_(data_); ... }: the runs of
\* every callable after guard x dropped what it holds (invoke_ swallows
\* whatever the callable throws)
InvokedAfterDrop(x) ==
  IF x.data_ # nullptr /\ x.active_
    THEN [invoked EXCEPT ![x.data_] = @ + 1]
    ELSE invoked

\* if (data_) { ...; if (destroy_) destroy_(data_); }
HeapAfterDrop(x) ==
  IF x.data_ # nullptr THEN [heap EXCEPT ![x.data_] = "deleted"] ELSE heap

\* ScopeGuard(F &&f): data_(new F(f)), active_(true)
Construct(g, f) ==
  /\ ~guards[g].alive /\ heap[f] = "unmade"
  /\ guards' = [guards EXCEPT ![g] = [alive |-> TRUE, data_ |-> f, active_ |-> TRUE]]
  /\ heap' = [heap EXCEPT ![f] = "live"]
  /\ UNCHANGED <<invoked, loggerVars, ret, ctxVars, pureVars>>

\* ScopeGuard(ScopeGuard &&other)
MoveConstruct(g, other) ==
  /\ ~guards[g].alive /\ guards[other].alive
  /\ guards' = [guards EXCEPT ![g] = guards[other], ![other] = MovedFrom(guards[other])]
  /\ UNCHANGED <<heap, invoked, loggerVars, ret, ctxVars, pureVars>>

\* ScopeGuard::operator=(ScopeGuard &&other)
MoveAssign(g, other) ==
  /\ guards[g].alive /\ guards[other].alive
  /\ IF g # other
       THEN /\ invoked' = InvokedAfterDrop(guards[g])
            /\ heap' = HeapAfterDrop(guards[g])
            /\ guards' = [guards EXCEPT ![g] = guards[other],
                                        ![other] = MovedFrom(guards[other])]
       ELSE UNCHANGED <<guards, heap, invoked>>
  /\ UNCHANGED <<loggerVars, ret, ctxVars, pureVars>>

\* ScopeGuard::dismiss
dismiss(g) ==
  /\ guards[g].alive
  /\ guards' = [guards EXCEPT ![g].active_ = FALSE]
  /\ UNCHANGED <<heap, invoked, loggerVars, ret, ctxVars, pureVars>>

\* ScopeGuard::~ScopeGuard
Destroy(g) ==
  /\ guards[g].alive
  /\ invoked' = InvokedAfterDrop(guards[g])
  /\ heap' = HeapAfterDrop(guards[g])
  /\ guards' = [guards EXCEPT ![g] = NoGuard]
  /\ UNCHANGED <<loggerVars, ret, ctxVars, pureVars>>

DoConstruct == \E g \in Guards, f \in Callbacks : Construct(g, f)
DoMoveConstruct == \E g, other \in Guards : MoveConstruct(g, other)
DoMoveAssign == \E g, other \in Guards : MoveAssign(g, other)
DoDismiss == \E g \in Guards : dismiss(g)
DoDestroy == \E g \in Guards : Destroy(g)

\* the guards alone: the Logger constructed and left untouched
GuardSpecInit == Init /\ ~consoleSync /\ spd_ # 0 /\ format_ = "KV"

GuardNext ==
  \/ DoConstruct
  \/ DoMoveConstruct
  \/ DoMoveAssign
  \/ DoDismiss
  \/ DoDestroy

GuardSpec == GuardSpecInit /\ [][GuardNext]_vars

\* ------------------------------------------------------- properties
\* the records of log/logModule/logf calls in the sink (n = 0 is setAsync's line)
LogWrites == {i \in 1..Len(sink) : sink[i].n > 0}

\* a thread's call is past the level gate
PastGate(t) == pc[t] \in {"wait", "blocked", "lock", "write"}

\* the record of thread t's current call would be emitted by spd->log
Emits(t) == should_log(loggers[call[t].spd], toSpdLevel(call[t].lvl))

\* the rule of the level filter, on Logger::Level
FilterRule(configured, level) ==
  configured # "OFF" /\ LevelOrd(level) >= LevelOrd(configured)

\* should_log on the mapped levels agrees with the rule, for every configured
\* level and every record level other than Off
GateFollowsRule ==
  \A c \in Level, l \in Level \ {"OFF"} :
    should_log(MakeLogger(toSpdLevel(c), spd_warn, FALSE), toSpdLevel(l))
      <=> FilterRule(c, l)

\* records the pipeline has taken so far: written, queued or overrun
Delivered == Cardinality(LogWrites) + Len(queue) + overrun_counter

\* no record is in the pipeline twice
NoDuplicates ==
  /\ \A i, j \in LogWrites : i # j => <<sink[i].tid, sink[i].n>> # <<sink[j].tid, sink[j].n>>
  /\ \A i, j \in 1..Len(queue) : i # j => <<queue[i].tid, queue[i].n>> # <<queue[j].tid, queue[j].n>>
  /\ \A i \in LogWrites, j \in 1..Len(queue) :
       <<sink[i].tid, sink[i].n>> # <<queue[j].tid, queue[j].n>>

\* record r is queued / written in the next state
QueuedNext(r) == \E k \in 1..Len(queue') : queue'[k].tid = r.tid /\ queue'[k].n = r.n
WrittenNext(r) == \E k \in 1..Len(sink') : sink'[k].tid = r.tid /\ sink'[k].n = r.n

\* C1: with console-sync on, every record of log/logModule/logf is written
\* while its writer holds the console mutex, hence never while the banner
\* thread is inside its console-mutex critical section.
C1_WriteUnderConsoleMutex ==
  consoleSync => \A i \in LogWrites : sink[i].held /\ ~sink[i].bcs

\* C2: with console-sync on, no record of a log call is physically written
\* between resetBanner() and markBannerDone().
C2_NoWriteWhileBannerPending ==
  consoleSync => \A i \in LogWrites : sink[i].done

\* C3 (as stated): the queue never discards a record (a full queue blocks the
\* producer instead).
C3_NoRecordDropped == overrun_counter = 0

\* C3 (amended): the queue uses overrun_oldest: a producer at spd->log is never
\* blocked, also when the queue is full; the queue never exceeds its bound;
\* every emitted record is counted once as written, queued or overrun; and a
\* record leaves the queue only by being written or by an overrun that the
\* counter records.
C3_OverrunOldest ==
  /\ [](\A t \in Threads : pc[t] = "write" => ENABLED Write(t))
  /\ [](Len(queue) <= QueueBound /\ NoDuplicates)
  /\ [][/\ \A t \in Threads :
             (pc[t] = "write" /\ pc'[t] = "idle") =>
               Delivered' = Delivered + (IF Emits(t) THEN 1 ELSE 0)
        /\ (\A t \in Threads : pc[t] = "write" => pc'[t] = "write") =>
             Delivered' = Delivered
        /\ \A k \in 1..Len(queue) :
             QueuedNext(queue[k]) \/ WrittenNext(queue[k])
               \/ overrun_counter' = overrun_counter + 1]_vars

\* C3 witness: the queue was full and a further record was taken at once
C3_Witness == overrun_counter > 0 /\ Len(queue) = QueueBound

\* C4 (as stated): the records of one thread reach the sink in the order of
\* its calls, also across a setAsync switch.
C4_FifoPerThread ==
  \A i, j \in LogWrites :
    (i < j /\ sink[i].tid = sink[j].tid) => sink[i].n < sink[j].n

\* C4 (amended): two records of one thread reach the sink out of order only
\* when the later call was written inline after setAsync(false) while the
\* earlier one was still queued; in sync mode, in async mode and across
\* setAsync(true) the order is kept.
C4_FifoExceptInlineOvertakes ==
  \A i, j \in LogWrites :
    (i < j /\ sink[i].tid = sink[j].tid /\ sink[i].n > sink[j].n) =>
      (sink[i].via = "direct" /\ sink[j].via = "worker")

\* C4 witness: two records of one thread, delivered on either side of a mode
\* switch, are in the sink in call order
C4_Witness ==
  \E i, j \in LogWrites :
    /\ i < j /\ sink[i].tid = sink[j].tid /\ sink[i].n < sink[j].n
    /\ sink[i].via = "direct" /\ sink[j].via = "worker"

C6_FormatSwitchNotRetroactive ==
  [][(format_' # format_ /\ queue # <<>>) => pattern' = pattern]_vars

\* C7: whatever setLevel, setAsync, setFormat and setPattern calls came before,
\* a call at a level other than Off passes the gate iff the configured level
\* is not Off and the record's level is at least the configured level; the
\* current logger carries the configured level, and should_log agrees with
\* the rule for every pair of levels.
C7_LevelFilter ==
  /\ []GateFollowsRule
  /\ [](spd_ # 0 => loggers[spd_].level = toSpdLevel(cfg))
  /\ [][\A t \in Threads :
          (pc[t] = "gate" /\ pc'[t] # "gate") =>
            (PastGate(t)' <=> FilterRule(cfg, call[t].lvl))]_vars

\* C7 witness: after a setLevel and a setAsync a call at the configured level passed
C7_Witness ==
  \E t \in Threads :
    PastGate(t) /\ cfg = "DEBUG" /\ call[t].lvl = "DEBUG" /\ Len(loggers) > 1

\* C8: a call whose level is Off only returns: it is never at the gate, never
\* waits for the banner, never formats, never holds a mutex and never writes.
C8_OffByIdentity ==
  \A t \in Threads :
    (pc[t] # "idle" /\ call[t].lvl = "OFF") =>
      /\ pc[t] = "off"
      /\ ~call[t].enc
      /\ mutex_ # t /\ console_mutex # t

\* C8 witness: an Off call is returning while the most verbose level is configured
C8_Witness == \E t \in Threads : pc[t] = "off" /\ cfg = "DEBUG"

\* C9: nothing is encoded before the gate, a call that fails the gate returns
\* at once, and a call that encoded, waits for the banner or writes has passed
\* the gate.
C9_GateBeforeFormatting ==
  /\ [](\A t \in Threads :
          /\ pc[t] = "gate" => ~call[t].enc
          /\ (call[t].enc \/ PastGate(t)) => call[t].spd # 0)
  /\ [][\A t \in Threads :
          (pc[t] = "gate" /\ ~PassesGate(call[t].lvl) /\ pc'[t] # "gate") =>
            /\ pc'[t] = "idle" /\ ~call'[t].enc
            /\ sink' = sink /\ queue' = queue]_vars

\* C9 witness: a logModule call that the filter rejects is at the gate
C9_Witness ==
  \E t \in Threads :
    /\ pc[t] = "gate" /\ call[t].op = "logModule"
    /\ spd_ # 0 /\ ~PassesGate(call[t].lvl)

\* C10: with console-sync on and no resetBanner() so far, the flag is set, no
\* call sleeps in waitForBanner and a call in waitForBanner can always go on.
C10_NoBlockWithoutBanner ==
  (consoleSync /\ banners = 0) =>
    /\ banner_done
    /\ \A t \in Threads : pc[t] # "blocked"
    /\ \A t \in Threads : pc[t] = "wait" => ENABLED WaitBanner(t)

\* C10 witness: a call is in waitForBanner and no banner was ever started
C10_Witness ==
  consoleSync /\ banners = 0 /\ \E t \in Threads : pc[t] = "wait"

\* C11: markBannerDone() wakes every sleeper: no thread sleeps in
\* waitForBanner while the flag is set, and under fair scheduling a thread that
\* waits when markBannerDone() is about to run completes its log call unless a
\* further resetBanner() follows.  emit_server_ready clears the flag once, when
\* it starts, prints with the flag clear and the console mutex held, sets the
\* flag once, when it ends, and always ends: the flag is set when it returns.
C11_MarkBannerDoneWakesAll ==
  /\ [](\A t \in Threads : pc[t] = "blocked" => ~banner_done)
  /\ \A t \in Threads, n \in 0..MaxBanners :
       (pc[t] \in {"wait", "blocked"} /\ bpc = "printed" /\ banners = n)
         ~> (pc[t] = "idle" \/ banners > n)
  /\ \A t \in Threads : (pc[t] \in {"lock", "write"}) ~> (pc[t] = "idle")
  /\ [](bpc = "idle" <=> banner_done)
  /\ [](bpc = "print" => console_mutex = BannerThread)
  /\ [][banner_done' # banner_done =>
          IF banner_done THEN bpc = "idle" /\ bpc' = "reset"
                         ELSE bpc = "printed" /\ bpc' = "idle"]_vars
  /\ (bpc # "idle") ~> (bpc = "idle")

\* C11 witness: both threads sleep in waitForBanner, one of them inside logf
\* with the Logger mutex held, and markBannerDone() is about to run
C11_Witness ==
  /\ bpc = "printed"
  /\ \A t \in Threads : pc[t] = "blocked"
  /\ \E t \in Threads : mutex_ = t

\* the shared configuration: the logger handle, the loggers' level, flush level
\* and mode, the format and the sink pattern
ConfigUnchanged ==
  loggers' = loggers /\ spd_' = spd_ /\ format_' = format_ /\ pattern' = pattern

\* C12 (as stated): a log, logModule or logf call that still has reads of the
\* shared configuration ahead of it (spd->log reads the logger's level and mode
\* and the sink's pattern) holds the Logger mutex.
C12_AllAccessUnderMutex == \A t \in Threads : PastGate(t) => mutex_ = t

\* C12 (amended): every mutation of the shared configuration, every query and
\* every level gate runs in a step that found the mutex free and gives it back,
\* so none of them overlaps a logf call, which holds the mutex from its gate to
\* its return and sees the configuration unchanged; log and logModule do not
\* hold it after their gate.
C12_MutationsAndGateUnderMutex ==
  /\ [](\A t \in Threads : PastGate(t) => (mutex_ = t <=> call[t].op = "logf"))
  /\ [](mutex_ # Free => (mutex_ \in Threads /\ PastGate(mutex_)))
  /\ [][~ConfigUnchanged => (mutex_ = Free /\ mutex_' = Free)]_vars
  /\ [][(ops' > ops /\ pc' = pc) => (mutex_ = Free /\ mutex_' = Free)]_vars
  /\ [][\A t \in Threads :
          (pc[t] = "gate" /\ pc'[t] # "gate") => mutex_ = Free]_vars
  /\ [][\A t \in Threads :
          (PastGate(t) /\ call[t].op = "logf") => ConfigUnchanged]_vars

\* C12 witness: a logf call is at spd_->log with the mutex held while another
\* thread's call stands at its gate
C12_Witness ==
  \E t, u \in Threads :
    /\ t # u /\ pc[t] = "write" /\ call[t].op = "logf" /\ mutex_ = t
    /\ pc[u] = "gate"

C15_FailedInitIsNoOp ==
  /\ [](spd_ = 0 =>
          /\ loggers = <<>> /\ sink = <<>> /\ queue = <<>> /\ ~thread_pool
          /\ mutex_ = Free /\ console_mutex \notin Threads
          /\ \A t \in Threads :
               /\ pc[t] \in {"idle", "off", "gate", "throw"}
               /\ pc[t] = "gate" => ENABLED Gate(t)
               /\ ret[t] \in {NoReturn, "OFF", "false", "runtime_error"}
          /\ LevelOf(spd_) = "OFF"
          /\ \A l \in Level : ~EnabledOf(spd_, l))
  /\ [][spd_ = 0 =>
          /\ spd_' = 0
          /\ UNCHANGED <<loggers, pattern, thread_pool, queue, overrun_counter,
                         sink, mutex_, cfg>>]_vars

\* C15 witness: without a logger, one thread asked level() and a logf call of
\* the other stands at the gate
C15_Witness ==
  /\ spd_ = 0
  /\ \E t, u \in Threads :
       ret[t] = "OFF" /\ pc[u] = "gate" /\ call[u].op = "logf"

\* the Context a thread must read: the one it last passed to setContext, the
\* empty one if it passed none or cleared since
LastSet(t) == IF given[t] = <<>> THEN EmptyContext ELSE given[t][1]

\* C13: a thread's Context is exactly the Context that thread last passed to
\* setContext (not merged with the one before), or the empty Context if it
\* set none or cleared last, whatever the other threads set or clear; and
\* getContext returns that Context
C13_ContextPerThread ==
  /\ [](\A t \in Threads : tls_ctx_[t] = LastSet(t))
  /\ [][\A t \in Threads :
          /\ got'[t] # got[t] => got'[t] = <<LastSet(t)>>
          /\ given'[t] = given[t] => tls_ctx_'[t] = tls_ctx_[t]]_vars

\* C13 witness: each thread read back its own Context while the other thread
\* holds a different one, and t1 replaced CtxA (a record it logged carries it)
\* by CtxB, which has no request id
C13_Witness ==
  /\ given["t1"] = <<CtxB>> /\ got["t1"] = <<CtxB>>
  /\ given["t2"] = <<CtxA>> /\ got["t2"] = <<CtxA>>
  /\ line # NoLine /\ line.tid = "t1" /\ line.c = CtxA

\* byte i of s lies in an ANSI escape sequence: an ESC at or before it with
\* no terminating m in between
InEscape(s, i) ==
  \E j \in 1..i : s[j] = 27 /\ \A k \in j..(i - 1) : s[k] # 109

\* s[lo..hi] without the bytes that lie in escape sequences
RECURSIVE StripRange(_, _, _)
StripRange(s, lo, hi) ==
  IF lo > hi THEN <<>>
  ELSE IF lo = hi THEN (IF InEscape(s, lo) THEN <<>> ELSE <<s[lo]>>)
  ELSE StripRange(s, lo, (lo + hi) \div 2) \o StripRange(s, ((lo + hi) \div 2) + 1, hi)

\* s with every ANSI escape sequence removed
StripAnsi(s) == StripRange(s, 1, Len(s))

\* C16: the pretty record built with color, its ANSI escape sequences
\* removed, is byte-identical to the record built from the same level,
\* message, context and kv pairs without color
C16_ColorKeepsStructure ==
  (line # NoLine /\ line.fn = "buildJsonPretty") =>
    StripAnsi(buildJsonPretty(line.level, line.msg, line.c, line.ord, line.kvs, TRUE))
      = buildJsonPretty(line.level, line.msg, line.c, line.ord, line.kvs, FALSE)

\* ------------------------------------------------------- reading JSON back
\* the value of a hexadecimal digit, -1 for any other byte
HexVal(b) ==
  IF b >= 48 /\ b <= 57 THEN b - 48
  ELSE IF b >= 97 /\ b <= 102 THEN b - 87
  ELSE IF b >= 65 /\ b <= 70 THEN b - 55
  ELSE -1

\* the string a JSON reader gets from the text between two quotes; a raw
\* quote, a raw control byte or a bad escape gives <<-1>> (no string has
\* that element)
RECURSIVE JsonUnescape(_)
JsonUnescape(s) ==
  IF s = <<>> THEN <<>>
  ELSE IF s[1] = 92 THEN
    IF Len(s) < 2 THEN <<-1>>
    ELSE IF s[2] \in {34, 92, 47} THEN <<s[2]>> \o JsonUnescape(SubSeq(s, 3, Len(s)))
    ELSE IF s[2] = 98 THEN <<8>> \o JsonUnescape(SubSeq(s, 3, Len(s)))
    ELSE IF s[2] = 102 THEN <<12>> \o JsonUnescape(SubSeq(s, 3, Len(s)))
    ELSE IF s[2] = 110 THEN <<10>> \o JsonUnescape(SubSeq(s, 3, Len(s)))
    ELSE IF s[2] = 114 THEN <<13>> \o JsonUnescape(SubSeq(s, 3, Len(s)))
    ELSE IF s[2] = 116 THEN <<9>> \o JsonUnescape(SubSeq(s, 3, Len(s)))
    ELSE IF s[2] = 117 /\ Len(s) >= 6 /\ \A i \in 3..6 : HexVal(s[i]) >= 0 THEN
      LET code == 4096 * HexVal(s[3]) + 256 * HexVal(s[4]) + 16 * HexVal(s[5]) + HexVal(s[6])
      IN IF code < 128 THEN <<code>> \o JsonUnescape(SubSeq(s, 7, Len(s))) ELSE <<-1>>
    ELSE <<-1>>
  ELSE IF s[1] = 34 \/ s[1] < 32 THEN <<-1>>
  ELSE <<s[1]>> \o JsonUnescape(Tail(s))

\* the position of the quote that closes a JSON string, looking from j; 0 if
\* there is none
RECURSIVE StringEnd(_, _)
StringEnd(s, j) ==
  IF j > Len(s) THEN 0
  ELSE IF s[j] = 34 THEN j
  ELSE IF s[j] = 92 THEN StringEnd(s, j + 2)
  ELSE StringEnd(s, j + 1)

\* the last position of an unquoted JSON value, looking from j; 0 if no comma
\* or brace follows
RECURSIVE LiteralEnd(_, _)
LiteralEnd(s, j) ==
  IF j > Len(s) THEN 0
  ELSE IF s[j] \in {44, 125} THEN j - 1
  ELSE LiteralEnd(s, j + 1)

\* what a reader makes of text that is not a JSON object
Malformed == [k |-> <<-1>>, v |-> <<>>]

\* the members "key":value of a single-line JSON object from position i (a
\* key's opening quote) to the closing brace, which must end the text
RECURSIVE JsonMembers(_, _)
JsonMembers(s, i) ==
  IF i > Len(s) \/ s[i] # 34 THEN <<Malformed>>
  ELSE
    LET ke == StringEnd(s, i + 1)
    IN IF ke = 0 \/ ke + 2 > Len(s) \/ s[ke + 1] # 58 THEN <<Malformed>>
       ELSE
         LET vs == ke + 2
             ve == IF s[vs] = 34 THEN StringEnd(s, vs + 1) ELSE LiteralEnd(s, vs)
         IN IF ve < vs \/ ve + 1 > Len(s) THEN <<Malformed>>
            ELSE
              LET m == [k |-> JsonUnescape(SubSeq(s, i + 1, ke - 1)), v |-> SubSeq(s, vs, ve)]
              IN IF s[ve + 1] = 125
                   THEN (IF ve + 1 = Len(s) THEN <<m>> ELSE <<Malformed>>)
                   ELSE IF s[ve + 1] = 44 THEN <<m>> \o JsonMembers(s, ve + 2)
                   ELSE <<Malformed>>

\* the members of the JSON object s, in the order of the text
JsonObject(s) ==
  IF Len(s) < 2 \/ s[1] # 123 THEN <<Malformed>> ELSE JsonMembers(s, 2)

\* the keys a JSON record must start with for the context c
LeadingKeys(c) ==
  <<S_level, S_msg>> \o (IF c.request_id # <<>> THEN <<S_rid>> ELSE <<>>)
                     \o (IF c.module # <<>> THEN <<S_mod>> ELSE <<>>)

EscapeWidth(ch) ==
  IF ch \in {34, 92, 8, 12, 10, 13, 9} THEN 2 ELSE IF ch < 32 THEN 6 ELSE 1

\* where the escape of s[i] starts in the escaped text
RECURSIVE EscapeStart(_, _)
EscapeStart(s, i) == IF i = 1 THEN 1 ELSE EscapeStart(s, i - 1) + EscapeWidth(s[i - 1])

\* C18: the text appendJsonEscaped produces holds no byte below 0x20, reads
\* back as the original string (so no quote or backslash in it is raw), and
\* holds every byte that needs no escape unchanged at its place
C18_EscapeLossless ==
  (arg.fn = "appendJsonEscaped" /\ res # <<>>) =>
    LET s == arg.s
        o == res[1]
    IN /\ \A i \in 1..Len(o) : o[i] >= 32
       /\ JsonUnescape(o) = s
       /\ Len(o) = EscapeStart(s, Len(s) + 1) - 1
       /\ \A i \in 1..Len(s) :
            IF EscapeWidth(s[i]) = 1 THEN o[EscapeStart(s, i)] = s[i]
                                     ELSE o[EscapeStart(s, i)] = 92

\* C18 witness: a quote followed by byte 0x01 was escaped to \"\u0001
C18_Witness ==
  /\ arg.fn = "appendJsonEscaped" /\ arg.s = <<34, 1>>
  /\ res = <<<<92, 34, 92, 117, 48, 48, 48, 49>>>>

\* s is the literal lit up to the case of its letters
SameIgnoringCase(s, lit) ==
  /\ Len(s) = Len(lit)
  /\ \A i \in 1..Len(lit) :
       s[i] = lit[i] \/ (lit[i] >= 97 /\ lit[i] <= 122 /\ s[i] = lit[i] - 32)

\* the format a string names
NamedFormat(s) ==
  IF SameIgnoringCase(s, <<106, 115, 111, 110>>) THEN "JSON"
  ELSE IF \E lit \in {<<106, 115, 111, 110, 95, 112, 114, 101, 116, 116, 121>>,
                      <<106, 115, 111, 110, 45, 112, 114, 101, 116, 116, 121>>,
                      <<112, 114, 101, 116, 116, 121, 45, 106, 115, 111, 110>>} : SameIgnoringCase(s, lit)
         THEN "JSON_PRETTY"
         ELSE "KV"

\* C19: parseFormat returns JSON for "json", JSON_PRETTY for "json_pretty",
\* "json-pretty" and "pretty-json", whatever the case of the letters, and KV
\* for every other string; setFormatFromEnv changes nothing when the
\* variable is unset or empty, and otherwise sets the format its value names
C19_ParseFormatTotal ==
  /\ []((arg.fn = "parseFormat" /\ res # <<>>) => res[1] = NamedFormat(arg.s))
  /\ [][(arg.fn = "setFormatFromEnv" /\ ops' # ops) =>
          IF ~arg.set \/ arg.s = <<>>
            THEN format_' = format_ /\ pattern' = pattern /\ loggers' = loggers
            ELSE format_' = NamedFormat(arg.s)]_vars

\* C19 witness: parseFormat("Json-Pretty") returned JSON_PRETTY
C19_Witness ==
  /\ arg.fn = "parseFormat" /\ arg.s = <<74, 115, 111, 110, 45, 80, 114, 101, 116, 116, 121>>
  /\ res = <<"JSON_PRETTY">>

\* the alive guards that own callable f
Owners(f) == {g \in Guards : guards[g].alive /\ guards[g].data_ = f}

\* callable f has an owner now and none after the step: its guard was
\* destroyed or overwritten
Dropped(f) ==
  /\ Owners(f) # {}
  /\ \A g \in Guards : ~(guards'[g].alive /\ guards'[g].data_ = f)

\* C20: a stored callable runs at most once; it runs in a step exactly when
\* the guard that owns it is destroyed or overwritten by a move assignment
\* while still active; a callable has one owner while it lives, so a
\* moved-from guard (which owns nothing) and a dismissed guard run nothing
C20_InvokedAtMostOnce ==
  /\ [](\A f \in Callbacks :
          /\ invoked[f] <= 1
          /\ Cardinality(Owners(f)) = (IF heap[f] = "live" THEN 1 ELSE 0)
          /\ invoked[f] = 1 => heap[f] = "deleted")
  /\ [][\A f \in Callbacks :
          invoked'[f] =
            invoked[f] + (IF Dropped(f) /\ \E g \in Owners(f) : guards[g].active_
                            THEN 1 ELSE 0)]_vars

\* C20 witness: one callable ran once, another was deleted without running
\* (its guard was dismissed), and a moved-from guard is still alive
C20_Witness ==
  /\ \E f1, f2 \in Callbacks :
       /\ invoked[f1] = 1
       /\ invoked[f2] = 0 /\ heap[f2] = "deleted"
  /\ \E g \in Guards : guards[g].alive /\ guards[g].data_ = nullptr

\* a log(L, ...) call issued now would emit a record: it passes the Off check
\* and the gate
WouldEmit(L) == ~IsOffCall(L) /\ PassesGate(L)

\* C26: whenever enabled(L) returns, it returns true exactly when a log call
\* at L issued in that state would emit a record; and level() returns the
\* configured level
C26_EnabledAgreesWithGate ==
  [][\A t \in Threads :
       /\ \A L \in QueryLevels :
            enabled(t, L) => ((ret'[t] = BoolValue(TRUE)) <=> WouldEmit(L))
       /\ Logger_level(t) => ret'[t] = cfg]_vars

\* C27: no thread waits for the banner while it holds the Logger's mutex_, so
\* a pending banner never keeps a configuration call, level(), enabled() or a
\* filtered-out log call of another thread from completing
C27_NoBannerWaitUnderMutex ==
  \A t \in Threads : (pc[t] = "blocked" /\ ~banner_done) => mutex_ # t

\* C28: with console sync enabled, every record written to the sink is the
\* record of a log, logModule or logf call; no configuration call writes one
C28_OnlyLogCallsWrite ==
  consoleSync => \A i \in 1..Len(sink) : sink[i].n > 0

\* C29: setAsync replaces the logger by one with the same level and the same
\* flush threshold, and leaves the sinks' pattern and the format alone; so
\* level() always gives the level configured last
C29_SetAsyncChangesOnlyMode ==
  /\ [](LevelOf(spd_) = cfg)
  /\ [][spd_' # spd_ =>
          /\ loggers'[spd_'].level = loggers[spd_].level
          /\ loggers'[spd_'].flush = loggers[spd_].flush
          /\ pattern' = pattern
          /\ format_' = format_]_vars

\* C29 witness: after setLevel(Debug) and a switch to asynchronous and back,
\* the third logger is synchronous and at Debug
C29_Witness ==
  /\ Len(loggers) = 3 /\ spd_ = 3
  /\ loggers[2].async /\ ~loggers[3].async
  /\ cfg = "DEBUG" /\ LevelOf(spd_) = "DEBUG"

\* C30: whenever the format is JSON or JSON_PRETTY the sinks use the raw "%v"
\* pattern and the flush threshold is Info; whenever it is KV the flush
\* threshold is Warn
C30_FormatFixesPatternAndFlush ==
  spd_ # 0 =>
    /\ format_ \in {"JSON", "JSON_PRETTY"} =>
         pattern = RawPattern /\ loggers[spd_].flush = spd_info
    /\ format_ = "KV" => loggers[spd_].flush = spd_warn

\* ---------------------------------------------------------- ascii_utils
\* every value of a char, as the unsigned char the functions convert it to
Chars == 0..255

\* is_alpha_ascii
is_alpha_ascii(c) ==
  LET uc == UChar(c) IN (uc >= 65 /\ uc <= 90) \/ (uc >= 97 /\ uc <= 122)

\* is_upper_ascii
is_upper_ascii(c) == LET uc == UChar(c) IN uc >= 65 /\ uc <= 90

\* is_lower_ascii
is_lower_ascii(c) == LET uc == UChar(c) IN uc >= 97 /\ uc <= 122

\* variant: the character as it is
same_char(c) == c

\* to_upper_ascii: uc - ('a' - 'A') converted back to char
to_upper_ascii(c) ==
  LET uc == UChar(c) IN IF uc >= 97 /\ uc <= 122 THEN (uc - (97 - 65)) % 256 ELSE c

\* to_lower_ascii: uc + ('a' - 'A') converted back to char
to_lower_ascii(c) ==
  LET uc == UChar(c) IN IF uc >= 65 /\ uc <= 90 THEN (uc + (97 - 65)) % 256 ELSE c

\* ascii_code: declared bool, so the int of the return statement is
\* converted to bool (non-zero is true)
ascii_code(c) == LET uc == UChar(c) IN uc # 0

\* the integral promotion of a bool compared with an int
IntOf(b) == IF b THEN 1 ELSE 0

\* the functions of ascii_utils that are called
AsciiFns == {"is_alpha_ascii", "is_upper_ascii", "is_lower_ascii",
             "to_upper_ascii", "to_lower_ascii", "ascii_code"}

\* a call of a function of ascii_utils on a char
AsciiArgs == {[fn |-> f, c |-> c] : f \in AsciiFns, c \in Chars}

\* a call of one of the three predicates
Call_is_ascii_class ==
  /\ arg.fn \in {"is_alpha_ascii", "is_upper_ascii", "is_lower_ascii"}
  /\ res = <<>>
  /\ res' = <<CASE arg.fn = "is_alpha_ascii" -> is_alpha_ascii(arg.c)
                [] arg.fn = "is_upper_ascii" -> is_upper_ascii(arg.c)
                [] arg.fn = "is_lower_ascii" -> is_lower_ascii(arg.c)>>
  /\ UNCHANGED <<arg, loggerVars, ret, ctxVars, guardVars>>

\* a call of to_upper_ascii
Call_to_upper_ascii ==
  /\ arg.fn = "to_upper_ascii" /\ res = <<>>
  /\ res' = <<to_upper_ascii(arg.c)>>
  /\ UNCHANGED <<arg, loggerVars, ret, ctxVars, guardVars>>

\* a call of to_lower_ascii
Call_to_lower_ascii ==
  /\ arg.fn = "to_lower_ascii" /\ res = <<>>
  /\ res' = <<to_lower_ascii(arg.c)>>
  /\ UNCHANGED <<arg, loggerVars, ret, ctxVars, guardVars>>

\* a call of ascii_code
Call_ascii_code ==
  /\ arg.fn = "ascii_code" /\ res = <<>>
  /\ res' = <<ascii_code(arg.c)>>
  /\ UNCHANGED <<arg, loggerVars, ret, ctxVars, guardVars>>

\* ------------------------------------------------------------------ Env
\* the values of the environment variable env_bool reads: "1", "true",
\* "TRUE", "Yes", "on", " on ", "\ttrue\n", "no", "0", "false", "", "2",
\* "tru", "o n", " 1 ", "yes!", "off", "  ", "tRuE\r"
EnvValues ==
  {
   <<49>>,
   <<116, 114, 117, 101>>,
   <<84, 82, 85, 69>>,
   <<89, 101, 115>>,
   <<111, 110>>,
   <<32, 111, 110, 32>>,
   <<9, 116, 114, 117, 101, 10>>,
   <<110, 111>>,
   <<48>>,
   <<102, 97, 108, 115, 101>>,
   <<>>,
   <<50>>,
   <<116, 114, 117>>,
   <<111, 32, 110>>,
   <<32, 49, 32>>,
   <<121, 101, 115, 33>>,
   <<111, 102, 102>>,
   <<32, 32>>,
   <<116, 82, 117, 69, 13>>
  }

\* a call of env_bool: the variable is set to s or not set, the default is def
EnvArgs ==
  {[fn |-> "env_bool", set |-> TRUE, s |-> x, def |-> d] :
     x \in EnvValues, d \in BOOLEAN}
    \cup {[fn |-> "env_bool", set |-> FALSE, s |-> <<>>, def |-> d] : d \in BOOLEAN}

\* std::isspace of an unsigned char in the "C" locale
isspace(uc) == uc = 32 \/ (uc >= 9 /\ uc <= 13)

\* detail::iequals: same size and the same bytes after std::tolower
iequals(a, b) ==
  /\ Len(a) = Len(b)
  /\ \A i \in 1..Len(a) : tolower(UChar(a[i])) = tolower(UChar(b[i]))

\* env_or: the value of the variable, or def when std::getenv returns null
env_or(env, def) == IF env.set THEN env.s ELSE def

\* the first loop of env_bool: b moves right over white space
RECURSIVE trim_begin(_, _, _)
trim_begin(s, b, e) ==
  IF b < e /\ isspace(UChar(s[b + 1])) THEN trim_begin(s, b + 1, e) ELSE b

\* the second loop of env_bool: e moves left over white space
RECURSIVE trim_end(_, _, _)
trim_end(s, b, e) ==
  IF e > b /\ isspace(UChar(s[e])) THEN trim_end(s, b, e - 1) ELSE e

\* env_bool: env_or with "1" or "0" for the default, trimmed, then compared
\* with "1", "true", "yes", "on"
env_bool(env, def) ==
  LET s == env_or(env, IF def THEN <<49>> ELSE <<48>>)
      b == trim_begin(s, 0, Len(s))
      e == trim_end(s, b, Len(s))
      v == SubSeq(s, b + 1, e)
  IN \/ v = <<49>>
     \/ iequals(v, <<116, 114, 117, 101>>)
     \/ iequals(v, <<121, 101, 115>>)
     \/ iequals(v, <<111, 110>>)

\* a call of env_bool
Call_env_bool ==
  /\ arg.fn = "env_bool" /\ res = <<>>
  /\ res' = <<env_bool([set |-> arg.set, s |-> arg.s], arg.def)>>
  /\ UNCHANGED <<arg, loggerVars, ret, ctxVars, guardVars>>

\* --------------------------------------------------------------- Result
\* the values of type T and of type E the results carry
TValues == {"v1", "v2"}

EValues == {"e1", "e2"}

\* the union with no member alive
NoPayload == "none"

\* the values a member of the union can hold
ValuesOf(member) ==
  CASE member = "val_" -> TValues
    [] member = "err_" -> EValues
    [] member = "dummy_" -> {"0"}
    [] OTHER -> {NoPayload}

\* Result<T,E>::Ok
Result_Ok(v) == [ok_ |-> TRUE, member |-> "val_", data |-> v]

\* Result<T,E>::Err and Result<void,E>::Err
Result_Err(e) == [ok_ |-> FALSE, member |-> "err_", data |-> e]

\* Result<void,E>::Ok
ResultVoid_Ok == [ok_ |-> TRUE, member |-> "dummy_", data |-> "0"]

\* is_ok
is_ok(o) == o.ok_

\* is_err
is_err(o) == ~o.ok_

\* the results the factories build
Results(kind) ==
  IF kind = "void"
    THEN {ResultVoid_Ok} \cup {Result_Err(e) : e \in EValues}
    ELSE {Result_Ok(v) : v \in TValues} \cup {Result_Err(e) : e \in EValues}

\* an object whose payload was moved from, or whose assignment threw: the
\* payload is alive and holds some value of its type
Unspecified(o) == {[o EXCEPT !.data = d] : d \in ValuesOf(o.member)}

\* the end of the lifetime of the active member: val_.~T() or err_.~E()
destroy(o) == [o EXCEPT !.member = NoPayload, !.data = NoPayload]

\* ::new (std::addressof(member)) M(value)
construct(o, member, value) == [o EXCEPT !.member = member, !.data = value]

\* the branches of the assignment operators that change the active member:
\* the old member is destroyed, the new one constructed, then ok_ is set;
\* a constructor that throws leaves the function before ok_ is set
switch_member(o, member, value, thrown) ==
  IF thrown
    THEN destroy(o)
    ELSE [construct(destroy(o), member, value) EXCEPT !.ok_ = (member # "err_")]

\* Result(const Result &o) and Result(Result &&o) of both classes: the new
\* object, then o; no object is made when the constructor of the payload throws
Result_ctor(kind, o, moved, thrown) ==
  LET made == IF o.ok_
                THEN construct([ok_ |-> o.ok_, member |-> NoPayload, data |-> NoPayload],
                               IF kind = "void" THEN "dummy_" ELSE "val_",
                               IF kind = "void" THEN "0" ELSE o.data)
                ELSE construct([ok_ |-> o.ok_, member |-> NoPayload, data |-> NoPayload],
                               "err_", o.data)
      payload == ~(kind = "void" /\ o.ok_)
      sources == IF moved /\ payload THEN Unspecified(o) ELSE {o}
  IN IF thrown /\ payload
       THEN {[raised |-> TRUE, objs |-> <<s>>] : s \in sources}
       ELSE {[raised |-> FALSE, objs |-> <<made, s>>] : s \in sources}

\* operator=(const Result &o) and operator=(Result &&o) of Result<T,E>
Result_assign(this, o, self, moved, thrown) ==
  LET sources == IF moved THEN Unspecified(o) ELSE {o}
  IN IF self
       THEN {[raised |-> FALSE, objs |-> <<this>>]}
       ELSE IF this.ok_ = o.ok_
              THEN IF thrown
                     THEN {[raised |-> TRUE, objs |-> <<d, s>>] :
                             d \in Unspecified(this), s \in sources}
                     ELSE {[raised |-> FALSE,
                            objs |-> <<[this EXCEPT !.data = o.data], s>>] :
                             s \in sources}
              ELSE {[raised |-> thrown,
                     objs |-> <<switch_member(this, o.member, o.data, thrown), s>>] :
                      s \in sources}

\* operator=(const Result &o) and operator=(Result &&o) of Result<void,E>
ResultVoid_assign(this, o, self, moved, thrown) ==
  LET sources == IF moved /\ ~o.ok_ THEN Unspecified(o) ELSE {o}
  IN IF self
       THEN {[raised |-> FALSE, objs |-> <<this>>]}
       ELSE IF this.ok_ /\ o.ok_
              THEN {[raised |-> FALSE, objs |-> <<this, o>>]}
              ELSE IF ~this.ok_ /\ ~o.ok_
                     THEN IF thrown
                            THEN {[raised |-> TRUE, objs |-> <<d, s>>] :
                                    d \in Unspecified(this), s \in sources}
                            ELSE {[raised |-> FALSE,
                                   objs |-> <<[this EXCEPT !.data = o.data], s>>] :
                                    s \in sources}
                     ELSE IF this.ok_ /\ ~o.ok_
                            THEN IF thrown
                                   THEN {[raised |-> TRUE, objs |-> <<this, s>>] :
                                           s \in sources}
                                   ELSE {[raised |-> FALSE,
                                          objs |-> <<[construct(this, "err_", o.data)
                                                        EXCEPT !.ok_ = FALSE], s>>] :
                                           s \in sources}
                            ELSE {[raised |-> FALSE,
                                   objs |-> <<[construct(destroy(this), "dummy_", "0")
                                                 EXCEPT !.ok_ = TRUE], o>>]}

\* a copy or move of a Result: the class, the operation, the two objects,
\* whether they are the same object, and whether the constructor or the
\* assignment of the payload throws
ResultArgs ==
  {[fn |-> f, kind |-> k, src |-> o, thrown |-> x] :
     f \in {"copy_ctor", "move_ctor"}, k \in {"T", "void"},
     o \in Results("T") \cup Results("void"), x \in BOOLEAN}
    \cup {[fn |-> f, kind |-> k, dst |-> d, src |-> o, self |-> sf, thrown |-> x] :
            f \in {"copy_assign", "move_assign"}, k \in {"T", "void"},
            d \in Results("T") \cup Results("void"),
            o \in Results("T") \cup Results("void"),
            sf \in BOOLEAN, x \in BOOLEAN}

\* the two objects are of the class, and are one object exactly when self
WellTyped(a) ==
  /\ a.src \in Results(a.kind)
  /\ a.fn \in {"copy_assign", "move_assign"} =>
       /\ a.dst \in Results(a.kind)
       /\ a.self => a.dst = a.src

\* a copy or move construction
Call_Result_ctor ==
  /\ arg.fn \in {"copy_ctor", "move_ctor"} /\ res = <<>>
  /\ \E r \in Result_ctor(arg.kind, arg.src, arg.fn = "move_ctor", arg.thrown) :
       res' = <<r>>
  /\ UNCHANGED <<arg, loggerVars, ret, ctxVars, guardVars>>

\* a copy or move assignment
Call_Result_assign ==
  /\ arg.fn \in {"copy_assign", "move_assign"} /\ res = <<>>
  /\ \E r \in IF arg.kind = "void"
                THEN ResultVoid_assign(arg.dst, arg.src, arg.self,
                                       arg.fn = "move_assign", arg.thrown)
                ELSE Result_assign(arg.dst, arg.src, arg.self,
                                   arg.fn = "move_assign", arg.thrown) :
       res' = <<r>>
  /\ UNCHANGED <<arg, loggerVars, ret, ctxVars, guardVars>>

\* ----------------------------------------------------------- Validation
\* " is required"
S_is_required == <<32, 105, 115, 32, 114, 101, 113, 117, 105, 114, 101, 100>>

\* " must be at least "
S_at_least == <<32, 109, 117, 115, 116, 32, 98, 101, 32, 97, 116, 32, 108, 101, 97, 115, 116, 32>>

\* " must be at most "
S_at_most == <<32, 109, 117, 115, 116, 32, 98, 101, 32, 97, 116, 32, 109, 111, 115, 116, 32>>

\* " chars"
S_chars == <<32, 99, 104, 97, 114, 115>>

\* " must be a number"
S_a_number == <<32, 109, 117, 115, 116, 32, 98, 101, 32, 97, 32, 110, 117, 109, 98, 101, 114>>

\* " must be >= "
S_ge == <<32, 109, 117, 115, 116, 32, 98, 101, 32, 62, 61, 32>>

\* " must be <= "
S_le == <<32, 109, 117, 115, 116, 32, 98, 101, 32, 60, 61, 32>>

\* " has invalid format"
S_invalid == <<32, 104, 97, 115, 32, 105, 110, 118, 97, 108, 105, 100, 32, 102, 111, 114, 109, 97, 116>>

\* an empty std::optional
nullopt == <<>>

\* a std::optional that holds x
Some(x) == <<x>>

\* the regular expression of a rule: one or more decimal digits
DigitsPattern == "[0-9]+"

\* the labels of the rules: none, and "L"
Labels == {<<>>, <<76>>}

\* struct Rule, every combination of its constraints: required, min_len 2 or
\* 5, max_len 3, min 5 or 100, max 50, the digits pattern, with and without a
\* label; min_len 5 with max_len 3, and min 100 with max 50, make two checks of
\* one kind fail together
Rules ==
  [required : BOOLEAN,
   min_len : {nullopt, Some(2), Some(5)},
   max_len : {nullopt, Some(3)},
   min : {nullopt, Some(5), Some(100)},
   max : {nullopt, Some(50)},
   pattern : {nullopt, Some(DigitsPattern)},
   label : Labels]

\* the rule builder required(label)
required(lbl) ==
  [required |-> TRUE, min_len |-> nullopt, max_len |-> nullopt, min |-> nullopt,
   max |-> nullopt, pattern |-> nullopt, label |-> lbl]

\* the rule builder num_range(minV, maxV, label)
num_range(minV, maxV, lbl) ==
  [required |-> FALSE, min_len |-> nullopt, max_len |-> nullopt, min |-> Some(minV),
   max |-> Some(maxV), pattern |-> nullopt, label |-> lbl]

\* the keys of the maps: "a" and "b" are fields of the schema, "x" is not
KeyA == <<97>>

KeyB == <<98>>

KeyX == <<120>>

\* the values of field "a": "", "7", "42", "-5", "99", "4x", "ab", "abcd", "+1"
ValuesA ==
  {<<>>, <<55>>, <<52, 50>>, <<45, 53>>, <<57, 57>>, <<52, 120>>, <<97, 98>>,
   <<97, 98, 99, 100>>, <<43, 49>>}

\* the values of field "b": "", "4x"
ValuesB == {<<>>, <<52, 120>>}

\* the data maps: each of "a", "b" and "x" present or not
DataMaps ==
  {d \in UNION {[S -> ValuesA \cup {<<122, 122>>}] : S \in SUBSET {KeyA, KeyB, KeyX}} :
     /\ KeyA \in DOMAIN d => d[KeyA] \in ValuesA
     /\ KeyB \in DOMAIN d => d[KeyB] \in ValuesB
     /\ KeyX \in DOMAIN d => d[KeyX] = <<122, 122>>}

\* the schemas: empty, a rule for "a", a rule for "b", or both
Schemas ==
  LET RulesB == {required(<<>>), num_range(5, 50, <<76>>)}
  IN {<<>>} \cup {KeyA :> r : r \in Rules} \cup {KeyB :> r : r \in RulesB}
       \cup {(KeyA :> ra) @@ (KeyB :> rb) : ra \in Rules, rb \in RulesB}

\* a call of validate_map
ValidateArgs ==
  {[fn |-> "validate_map", data |-> d, schema |-> sc] : d \in DataMaps, sc \in Schemas}

\* the length of the run of decimal digits of v that starts at index i
RECURSIVE DigitRun(_, _)
DigitRun(v, i) ==
  IF i <= Len(v) /\ v[i] >= 48 /\ v[i] <= 57 THEN 1 + DigitRun(v, i + 1) ELSE 0

\* the number the digits v[lo..hi] spell
RECURSIVE DigitsValue(_, _, _)
DigitsValue(v, lo, hi) ==
  IF hi < lo THEN 0 ELSE DigitsValue(v, lo, hi - 1) * 10 + (v[hi] - 48)

\* std::from_chars(begin, end, n, 10) for a long long: an optional minus sign
\* and the longest run of digits; ptr is the offset of the first byte not
\* consumed; the values are too short to leave the range of a long long
from_chars(v) ==
  LET neg == Len(v) > 0 /\ v[1] = 45
      first == IF neg THEN 2 ELSE 1
      k == DigitRun(v, first)
      mag == DigitsValue(v, first, first + k - 1)
  IN IF k = 0
       THEN [ec |-> "invalid_argument", ptr |-> 0, n |-> 0]
       ELSE [ec |-> "", ptr |-> first + k - 1, n |-> IF neg THEN 0 - mag ELSE mag]

\* variant: the pattern may match a part of the value
regex_search(v, re) == \E i \in 1..Len(v) : v[i] >= 48 /\ v[i] <= 57

\* std::regex_match(v, pattern): the whole value matches
regex_match(v, re) ==
  Len(v) > 0 /\ \A i \in 1..Len(v) : v[i] >= 48 /\ v[i] <= 57

\* the body of the loop of validate_map for one entry of the schema: no
\* message, or the message of the first check that fails
validate_field(data, key, rule) ==
  LET present == key \in DOMAIN data /\ data[key] # <<>>
      label == IF rule.label = <<>> THEN key ELSE rule.label
  IN IF rule.required /\ ~present THEN <<label \o S_is_required>>
     ELSE IF ~present THEN <<>>
     ELSE
       LET v == data[key]
           fc == from_chars(v)
           numeric == rule.min # nullopt \/ rule.max # nullopt
       IN IF v # <<>> /\ rule.min_len # nullopt /\ Len(v) < rule.min_len[1]
            THEN <<label \o S_at_least \o FormatInt(rule.min_len[1]) \o S_chars>>
          ELSE IF v # <<>> /\ rule.max_len # nullopt /\ Len(v) > rule.max_len[1]
            THEN <<label \o S_at_most \o FormatInt(rule.max_len[1]) \o S_chars>>
          ELSE IF numeric /\ (fc.ec # "" \/ fc.ptr # Len(v))
            THEN <<label \o S_a_number>>
          ELSE IF numeric /\ rule.min # nullopt /\ fc.n < rule.min[1]
            THEN <<label \o S_ge \o FormatInt(rule.min[1])>>
          ELSE IF numeric /\ rule.max # nullopt /\ fc.n > rule.max[1]
            THEN <<label \o S_le \o FormatInt(rule.max[1])>>
          ELSE IF rule.pattern # nullopt /\ ~regex_match(v, rule.pattern[1])
            THEN <<label \o S_invalid>>
          ELSE <<>>

\* validate_map: errs gets the message of every entry of the schema that has
\* one; Err(errs) unless errs is empty
validate_map(data, schema) ==
  LET failed == {k \in DOMAIN schema : validate_field(data, k, schema[k]) # <<>>}
      errs == [k \in failed |-> validate_field(data, k, schema[k])[1]]
  IN IF failed # {} THEN Result_Err(errs) ELSE ResultVoid_Ok

\* a call of validate_map
Call_validate_map ==
  /\ arg.fn = "validate_map" /\ res = <<>>
  /\ res' = <<validate_map(arg.data, arg.schema)>>
  /\ UNCHANGED <<arg, loggerVars, ret, ctxVars, guardVars>>

\* one utility function applied to one argument
UtilArgs == AsciiArgs \cup EnvArgs \cup {a \in ResultArgs : WellTyped(a)}
              \cup ValidateArgs

UtilInit ==
  /\ LoggerInit /\ ~consoleSync
  /\ ContextInit /\ GuardInit
  /\ arg \in UtilArgs
  /\ res = <<>>

UtilNext ==
  \/ Call_is_ascii_class
  \/ Call_to_upper_ascii
  \/ Call_to_lower_ascii
  \/ Call_ascii_code
  \/ Call_env_bool
  \/ Call_Result_ctor
  \/ Call_Result_assign
  \/ Call_validate_map

UtilSpec == UtilInit /\ [][UtilNext]_vars

\* C23: ascii_code(c) is the numeric code of c: 65 for 'A', 97 for 'a',
\* 48 for '0', 32 for ' ', 126 for '~'
C23_AsciiCodeIsNumeric ==
  (arg.fn = "ascii_code" /\ res # <<>> /\ arg.c \in {65, 97, 48, 32, 126}) =>
     IntOf(res[1]) = arg.c

IsBlank(ch) == ch \in {9, 10, 11, 12, 13, 32}

\* s is one of the words 1, true, yes, on in any case, between white space
Truthy(s) ==
  \E i \in 0..Len(s), j \in 0..Len(s) :
    /\ i <= j
    /\ \A k \in 1..i : IsBlank(s[k])
    /\ \A k \in (j + 1)..Len(s) : IsBlank(s[k])
    /\ \E w \in {<<49>>, <<116, 114, 117, 101>>, <<121, 101, 115>>, <<111, 110>>} :
         SameIgnoringCase(SubSeq(s, i + 1, j), w)

\* C25: env_bool is true when the value, trimmed and in any case, is 1, true,
\* yes or on; when the variable is missing or has any other value it is the
\* default, for a default of true and of false
C25_EnvBoolDefault ==
  (arg.fn = "env_bool" /\ res # <<>>) =>
     res[1] = IF arg.set /\ Truthy(arg.s) THEN TRUE ELSE arg.def

\* the member of the union that matches the discriminant of o
MatchingMember(kind, o) ==
  IF is_err(o) THEN "err_" ELSE IF kind = "void" THEN "dummy_" ELSE "val_"

\* o holds exactly one live payload, the one its discriminant names, and
\* is_ok and is_err are complementary
OneLivePayload(kind, o) ==
  /\ o.member = MatchingMember(kind, o)
  /\ o.data \in ValuesOf(o.member)
  /\ is_ok(o) # is_err(o)

\* C21: every Result holds exactly one live payload matching its discriminant,
\* is_ok and is_err are complementary in every state, after a copy or move
\* construction or assignment from s the destination has the discriminant and
\* the payload s had, in each combination of Ok and Err, and a
\* self-assignment changes nothing
C21_OneLivePayload ==
  arg.fn \in {"copy_ctor", "move_ctor", "copy_assign", "move_assign"} =>
    /\ OneLivePayload(arg.kind, arg.src)
    /\ res # <<>> =>
         /\ \A i \in 1..Len(res[1].objs) : OneLivePayload(arg.kind, res[1].objs[i])
         /\ ~res[1].raised =>
              IF arg.fn \in {"copy_assign", "move_assign"} /\ arg.self
                THEN res[1].objs = <<arg.dst>>
                ELSE /\ is_ok(res[1].objs[1]) = is_ok(arg.src)
                     /\ res[1].objs[1] = arg.src

\* the checks of a field in the order they are made
CheckOrder == <<"required", "min_len", "max_len", "number", "min", "max", "pattern">>

\* v is a decimal number: an optional minus sign and one or more digits
IsDecimal(v) ==
  LET body == IF Len(v) > 0 /\ v[1] = 45 THEN Tail(v) ELSE v
  IN Len(body) > 0 /\ \A i \in 1..Len(body) : body[i] \in 48..57

\* the number a string of digits spells
RECURSIVE NumberOf(_)
NumberOf(b) ==
  IF b = <<>> THEN 0 ELSE 10 * NumberOf(SubSeq(b, 1, Len(b) - 1)) + (b[Len(b)] - 48)

\* the number a decimal number spells
DecimalOf(v) == IF v[1] = 45 THEN 0 - NumberOf(Tail(v)) ELSE NumberOf(v)

\* the field key of the data is there and not empty
Present(data, key) == key \in DOMAIN data /\ Len(data[key]) > 0

\* the check c of the rule fails for the field key of the data
Fails(c, data, key, rule) ==
  IF c = "required" THEN rule.required /\ ~Present(data, key)
  ELSE
    /\ Present(data, key)
    /\ CASE c = "min_len" -> rule.min_len # <<>> /\ Len(data[key]) < rule.min_len[1]
         [] c = "max_len" -> rule.max_len # <<>> /\ Len(data[key]) > rule.max_len[1]
         [] c = "number" -> (rule.min # <<>> \/ rule.max # <<>>) /\ ~IsDecimal(data[key])
         [] c = "min" -> /\ rule.min # <<>> /\ IsDecimal(data[key])
                         /\ DecimalOf(data[key]) < rule.min[1]
         [] c = "max" -> /\ rule.max # <<>> /\ IsDecimal(data[key])
                         /\ DecimalOf(data[key]) > rule.max[1]
         [] c = "pattern" -> /\ rule.pattern # <<>>
                             /\ \E i \in 1..Len(data[key]) : data[key][i] \notin 48..57

\* the message of the check c of the rule for the field key
MessageOf(c, key, rule) ==
  LET name == IF rule.label = <<>> THEN key ELSE rule.label
  IN CASE c = "required" -> name \o S_is_required
       [] c = "min_len" -> name \o S_at_least \o FormatInt(rule.min_len[1]) \o S_chars
       [] c = "max_len" -> name \o S_at_most \o FormatInt(rule.max_len[1]) \o S_chars
       [] c = "number" -> name \o S_a_number
       [] c = "min" -> name \o S_ge \o FormatInt(rule.min[1])
       [] c = "max" -> name \o S_le \o FormatInt(rule.max[1])
       [] c = "pattern" -> name \o S_invalid

\* the place in the order of the first check that fails, 0 when none does
FirstFailing(data, key, rule) ==
  LET F == {i \in 1..Len(CheckOrder) : Fails(CheckOrder[i], data, key, rule)}
  IN IF F = {} THEN 0 ELSE CHOOSE i \in F : \A j \in F : i <= j

\* the data without the keys the schema does not have
OnSchemaKeys(data, schema) == [k \in DOMAIN data \cap DOMAIN schema |-> data[k]]

\* C22: validate_map returns Ok exactly when no field of the schema fails a
\* check; otherwise it returns Err with one message for each failing field and
\* no other, the message of the first failing check in the order required,
\* min_len, max_len, is-a-number, min, max, pattern; a field that is absent or
\* empty and not required has no message, and the keys of the data that the
\* schema does not have change nothing
C22_FirstFailingCheck ==
  (arg.fn = "validate_map" /\ res # <<>>) =>
    LET failing == {k \in DOMAIN arg.schema :
                      FirstFailing(arg.data, k, arg.schema[k]) # 0}
    IN /\ is_ok(res[1]) <=> failing = {}
       /\ is_err(res[1]) =>
            /\ DOMAIN res[1].data = failing
            /\ \A k \in failing :
                 res[1].data[k] =
                   MessageOf(CheckOrder[FirstFailing(arg.data, k, arg.schema[k])],
                             k, arg.schema[k])
       /\ \A k \in DOMAIN arg.schema :
            (~Present(arg.data, k) /\ ~arg.schema[k].required) =>
               (is_ok(res[1]) \/ k \notin DOMAIN res[1].data)
       /\ res[1] = validate_map(OnSchemaKeys(arg.data, arg.schema), arg.schema)

C22_Witness ==
  /\ arg.fn = "validate_map" /\ res # <<>>
  /\ KeyX \in DOMAIN arg.data
  /\ is_err(res[1])
  /\ DOMAIN res[1].data = {KeyA, KeyB}
  /\ res[1].data[KeyA] = <<76>> \o S_a_number
  /\ res[1].data[KeyB] = KeyB \o S_is_required
  /\ arg.schema[KeyA].pattern # <<>>

====
